---------------------------- MODULE Spec2Model ----------------------------
(***************************************************************************)
(* Model of the PrintCost cost core: the entity models (Printer, Filament, *)
(* Consumable) and the CostCalculation engine.                             *)
(*                                                                         *)
(* JavaScript numbers are modelled as exact extended rationals: a record   *)
(* [n, d] with d >= 0 in lowest terms.  d = 0 encodes the non-finite       *)
(* values a division by zero produces in JavaScript: n = 1 is Infinity,    *)
(* n = -1 is -Infinity and n = 0 is NaN.  IEEE-754 rounding of the last    *)
(* bits and the sign of zero are not modelled.                             *)
(***************************************************************************)
EXTENDS Integers, Sequences, FiniteSets, TLC

(***************************************************************************)
(* Numbers                                                                 *)
(***************************************************************************)
Abs(x) == IF x < 0 THEN -x ELSE x

Sign(x) == IF x < 0 THEN -1 ELSE IF x > 0 THEN 1 ELSE 0

RECURSIVE GCD(_, _)
GCD(a, b) == IF b = 0 THEN a ELSE GCD(b, a % b)

Norm(n, d) ==
  IF d = 0 THEN [n |-> Sign(n), d |-> 0]
  ELSE LET s == Sign(d)
           g == GCD(Abs(n), Abs(d))
       IN  [n |-> (s * n) \div g, d |-> Abs(d) \div g]

Int2Num(i) == [n |-> i, d |-> 1]

Frac(a, b) == Norm(a, b)

Zero == [n |-> 0, d |-> 1]

NaN == [n |-> 0, d |-> 0]

Infinity == [n |-> 1, d |-> 0]

IsNaN(a) == a.d = 0 /\ a.n = 0

IsInf(a) == a.d = 0 /\ a.n # 0

IsFinite(a) == a.d # 0

Neg(a) == [n |-> -a.n, d |-> a.d]

\* a + b
Add(a, b) ==
  IF IsNaN(a) \/ IsNaN(b) THEN NaN
  ELSE IF IsInf(a) /\ IsInf(b) THEN (IF a.n = b.n THEN a ELSE NaN)
  ELSE IF IsInf(a) THEN a
  ELSE IF IsInf(b) THEN b
  ELSE LET g == GCD(a.d, b.d)
       IN  Norm(a.n * (b.d \div g) + b.n * (a.d \div g), (a.d \div g) * b.d)

\* a - b
Sub(a, b) == Add(a, Neg(b))

\* a * b
Mul(a, b) ==
  IF IsNaN(a) \/ IsNaN(b) THEN NaN
  ELSE IF IsInf(a) \/ IsInf(b)
       THEN [n |-> Sign(a.n) * Sign(b.n), d |-> 0]
  ELSE IF a.n = 0 \/ b.n = 0 THEN Zero
  ELSE LET g1 == GCD(Abs(a.n), b.d)
           g2 == GCD(Abs(b.n), a.d)
       IN  Norm((a.n \div g1) * (b.n \div g2), (a.d \div g2) * (b.d \div g1))

\* a / b : a division by zero yields Infinity, -Infinity or NaN, never an error
Div(a, b) ==
  IF IsNaN(a) \/ IsNaN(b) THEN NaN
  ELSE IF IsInf(a) /\ IsInf(b) THEN NaN
  ELSE IF IsInf(a) THEN [n |-> a.n * (IF b.n < 0 THEN -1 ELSE 1), d |-> 0]
  ELSE IF IsInf(b) THEN Zero
  ELSE IF b.n = 0 THEN [n |-> Sign(a.n), d |-> 0]
  ELSE IF a.n = 0 THEN Zero
  ELSE LET g1 == GCD(Abs(a.n), Abs(b.n))
           g2 == GCD(a.d, b.d)
       IN  Norm((a.n \div g1) * (b.d \div g2) * Sign(b.n),
                (a.d \div g2) * (Abs(b.n) \div g1))

\* a < b ; every comparison with NaN is false
Lt(a, b) ==
  IF IsNaN(a) \/ IsNaN(b) THEN FALSE
  ELSE IF IsInf(a) /\ IsInf(b) THEN a.n < b.n
  ELSE IF IsInf(a) THEN a.n < 0
  ELSE IF IsInf(b) THEN b.n > 0
  ELSE LET g == GCD(a.d, b.d)
       IN  a.n * (b.d \div g) < b.n * (a.d \div g)

\* a <= b
Le(a, b) ==
  IF IsNaN(a) \/ IsNaN(b) THEN FALSE
  ELSE Lt(a, b) \/ a = b

\* a > b
Gt(a, b) == Lt(b, a)

\* a >= b
Ge(a, b) == Le(b, a)

\* Math.min(a, b)
MathMin(a, b) ==
  IF IsNaN(a) \/ IsNaN(b) THEN NaN ELSE IF Lt(b, a) THEN b ELSE a

\* Math.max(a, b)
MathMax(a, b) ==
  IF IsNaN(a) \/ IsNaN(b) THEN NaN ELSE IF Lt(a, b) THEN b ELSE a

Sixty == Int2Num(60)

Hundred == Int2Num(100)

Thousand == Int2Num(1000)

One == Int2Num(1)

\* a destructuring default: the parameter's value, or dflt when it is undefined
\* (an optional parameter is << >> when undefined and <<v>> when given)
Default(opt, dflt) == IF opt = << >> THEN dflt ELSE opt[1]

\* a || b for a string field of a record
OrString(opt, dflt) == IF opt = << >> \/ opt[1] = "" THEN dflt ELSE opt[1]

\* a || null for a string field of a record
OrNullString(opt) == IF opt = << >> \/ opt[1] = "" THEN << >> ELSE opt

\* a || null for a number field of a record
OrNullNumber(opt) == IF opt = << >> \/ opt[1] = Zero \/ IsNaN(opt[1]) THEN << >> ELSE opt

(***************************************************************************)
(* Printer model (class Printer).  A printer object is a record; the ams   *)
(* field is << >> when no module record is present and <<module>> when one *)
(* is.  amsMethods tells whether the object answers                        *)
(* getAmsDepreciationPerHour / getAmsDepreciationCost: an instance of      *)
(* class Printer does not (the class defines neither).                     *)
(***************************************************************************)
\* getDepreciationPerHour guarding only negative lifetimes
Printer_getDepreciationPerHour_ZeroUnguarded(printer) ==
  IF Lt(printer.estimatedLifetimeHours, Zero) THEN Zero
  ELSE Div(printer.purchasePrice, printer.estimatedLifetimeHours)

\* Printer.getDepreciationPerHour
Printer_getDepreciationPerHour(printer) ==
  IF Le(printer.estimatedLifetimeHours, Zero) THEN Zero
  ELSE Div(printer.purchasePrice, printer.estimatedLifetimeHours)

\* Printer.getDepreciationCost
Printer_getDepreciationCost(printer, printTimeMinutes) ==
  LET hours == Div(printTimeMinutes, Sixty)
  IN  Mul(Printer_getDepreciationPerHour(printer), hours)

\* Printer.getElectricityCost
Printer_getElectricityCost(printer, printTimeMinutes, electricityRate) ==
  LET hours == Div(printTimeMinutes, Sixty)
      kWh   == Mul(Div(printer.powerConsumption.printing, Thousand), hours)
  IN  Mul(kWh, electricityRate)

\* the condition `printer.hasAms && printer.ams`
AmsAttached(printer) == printer.hasAms /\ printer.ams # << >>

\* getAmsDepreciationPerHour of a printer object that supplies it
Printer_getAmsDepreciationPerHour(printer) ==
  IF ~AmsAttached(printer) THEN Zero
  ELSE IF Le(printer.ams[1].estimatedLifetimeHours, Zero) THEN Zero
  ELSE Div(printer.ams[1].purchasePrice, printer.ams[1].estimatedLifetimeHours)

\* getAmsDepreciationCost of a printer object that supplies it
Printer_getAmsDepreciationCost(printer, printTimeMinutes) ==
  Mul(Printer_getAmsDepreciationPerHour(printer), Div(printTimeMinutes, Sixty))

(***************************************************************************)
(* Filament model (class Filament)                                         *)
(***************************************************************************)
\* Filament.getPricePerGram
Filament_getPricePerGram(filament) ==
  IF Le(filament.spoolWeight, Zero) THEN Zero
  ELSE Div(filament.spoolPrice, filament.spoolWeight)

\* Filament.getCost
Filament_getCost(filament, grams) == Mul(grams, Filament_getPricePerGram(filament))

(***************************************************************************)
(* Consumable model (class Consumable)                                     *)
(***************************************************************************)
\* Consumable.getCostPerHour
Consumable_getCostPerHour(consumable) ==
  IF Le(consumable.estimatedLifetimeHours, Zero) THEN Zero
  ELSE Div(consumable.unitPrice, consumable.estimatedLifetimeHours)

\* Consumable.getCost
Consumable_getCost(consumable, printTimeMinutes) ==
  LET hours == Div(printTimeMinutes, Sixty)
  IN  Mul(Consumable_getCostPerHour(consumable), hours)

\* getWearPercentage without the cap at 100
Consumable_getWearPercentage_Uncapped(consumable) ==
  IF Le(consumable.estimatedLifetimeHours, Zero) THEN Zero
  ELSE Mul(Div(consumable.currentHours, consumable.estimatedLifetimeHours), Hundred)

\* Consumable.getWearPercentage
Consumable_getWearPercentage(consumable) ==
  IF Le(consumable.estimatedLifetimeHours, Zero) THEN Zero
  ELSE MathMin(Hundred,
               Mul(Div(consumable.currentHours, consumable.estimatedLifetimeHours),
                   Hundred))

\* Consumable.needsReplacement
Consumable_needsReplacement(consumable, threshold) ==
  Ge(Consumable_getWearPercentage(consumable), threshold)

(***************************************************************************)
(* CostCalculation engine (class CostCalculation)                          *)
(***************************************************************************)
\* CONFIG.DEFAULTS.FAILURE_RATE
FAILURE_RATE == Frac(5, 100)

\* this.electricityRate of the singleton costCalculator (config.electricityRate ?? 0.15)
EngineElectricityRate == Frac(15, 100)

\* the loop over consumables in calculate: the items pushed to
\* consumablesBreakdown, in input order
RECURSIVE ConsumablesBreakdown(_, _)
ConsumablesBreakdown(consumables, printTimeHours) ==
  IF consumables = << >> THEN << >>
  ELSE LET consumable == Head(consumables)
           cost == Mul(Consumable_getCostPerHour(consumable), printTimeHours)
       IN  << [id          |-> consumable.id,
               costPerHour |-> Consumable_getCostPerHour(consumable),
               cost        |-> cost] >>
           \o ConsumablesBreakdown(Tail(consumables), printTimeHours)

\* the running total `consumablesCost += cost` of the same loop
RECURSIVE SumCosts(_, _)
SumCosts(items, acc) ==
  IF items = << >> THEN acc
  ELSE SumCosts(Tail(items), Add(acc, Head(items).cost))

\* the total with `=` in place of `+=`: the cost of the last consumable
ConsumablesCost_Last(items) == IF items = << >> THEN Zero ELSE items[Len(items)].cost

\* consumablesCost: 0 before the loop, each item's cost added in turn
ConsumablesCost(items) == SumCosts(items, Zero)

\* the percentages guarded by subtotal >= 0 instead of subtotal > 0
CalcPercentages_ZeroUnguarded(filamentCost, electricityCost, depreciationCost, consumablesCost, laborCost, subtotal) ==
  IF Ge(subtotal, Zero)
  THEN [filament     |-> Mul(Div(filamentCost, subtotal), Hundred),
        electricity  |-> Mul(Div(electricityCost, subtotal), Hundred),
        depreciation |-> Mul(Div(depreciationCost, subtotal), Hundred),
        consumables  |-> Mul(Div(consumablesCost, subtotal), Hundred),
        labor        |-> Mul(Div(laborCost, subtotal), Hundred)]
  ELSE [filament |-> Zero, electricity |-> Zero, depreciation |-> Zero,
        consumables |-> Zero, labor |-> Zero]

\* the percentages object of calculate
CalcPercentages(filamentCost, electricityCost, depreciationCost, consumablesCost, laborCost, subtotal) ==
  IF Gt(subtotal, Zero)
  THEN [filament     |-> Mul(Div(filamentCost, subtotal), Hundred),
        electricity  |-> Mul(Div(electricityCost, subtotal), Hundred),
        depreciation |-> Mul(Div(depreciationCost, subtotal), Hundred),
        consumables  |-> Mul(Div(consumablesCost, subtotal), Hundred),
        labor        |-> Mul(Div(laborCost, subtotal), Hundred)]
  ELSE [filament |-> Zero, electricity |-> Zero, depreciation |-> Zero,
        consumables |-> Zero, labor |-> Zero]

\* the failure-adjusted cost dividing also at failureRate = 1
EffectiveCost_DividesAtOne(subtotal, failureRate) ==
  IF Le(failureRate, One) THEN Div(subtotal, Sub(One, failureRate)) ELSE subtotal

\* step 7 of calculate: the failure-adjusted cost
EffectiveCost(subtotal, failureRate) ==
  IF Lt(failureRate, One) THEN Div(subtotal, Sub(One, failureRate)) ELSE subtotal

\* the markup taken as a factor instead of a percentage
MarkupAmount_NoPercent(effectiveCost, markupPercent) ==
  Mul(effectiveCost, markupPercent)

\* step 8 of calculate: the markup
MarkupAmount(effectiveCost, markupPercent) ==
  Mul(effectiveCost, Div(markupPercent, Hundred))

\* the failure buffer with its operands swapped
FailureBuffer_Swapped(effectiveCost, subtotal) == Sub(subtotal, effectiveCost)

\* step 7 of calculate: the failure buffer
FailureBuffer(effectiveCost, subtotal) == Sub(effectiveCost, subtotal)

\* step 9 of calculate: the total
Total(effectiveCost, markupAmount) == Add(effectiveCost, markupAmount)

\* the subtotal without the labor cost
Subtotal_NoLabor(filamentCost, electricityCost, depreciationCost, consumablesCost, laborCost) ==
  Add(Add(Add(filamentCost, electricityCost), depreciationCost), consumablesCost)

\* the subtotal of calculate
Subtotal(filamentCost, electricityCost, depreciationCost, consumablesCost, laborCost) ==
  Add(Add(Add(Add(filamentCost, electricityCost), depreciationCost),
          consumablesCost), laborCost)

\* the power draw of calculate: printing watts plus the module's working watts
PowerWatts(printer) ==
  IF AmsAttached(printer)
  THEN Add(printer.powerConsumption.printing, printer.ams[1].powerConsumption.working)
  ELSE printer.powerConsumption.printing

\* CostCalculation.calculate: the value returned, or the exception raised.
\* The call printer.getAmsDepreciationCost(...) raises a TypeError when the
\* printer object has no such method.
calculate(params) ==
  LET printer          == params.printer
      filament         == params.filament
      consumables      == Default(params.consumables, << >>)
      printTimeMinutes == params.printTimeMinutes
      filamentGrams    == params.filamentGrams
      electricityRate  == Default(params.electricityRate, EngineElectricityRate)
      failureRate      == Default(params.failureRate, FAILURE_RATE)
      laborHourlyRate  == Default(params.laborHourlyRate, Zero)
      laborHours       == Default(params.laborHours, Zero)
      markupPercent    == Default(params.markupPercent, Zero)
      printTimeHours   == Div(printTimeMinutes, Sixty)
      filamentCost     == Mul(filamentGrams, Filament_getPricePerGram(filament))
      powerWatts       == PowerWatts(printer)
      energyKwh        == Div(Mul(powerWatts, printTimeHours), Thousand)
      electricityCost  == Mul(energyKwh, electricityRate)
      printerDepreciationCost ==
        Mul(Printer_getDepreciationPerHour(printer), printTimeHours)
      amsDepreciationCost == Printer_getAmsDepreciationCost(printer, printTimeMinutes)
      depreciationCost == Add(printerDepreciationCost, amsDepreciationCost)
      consumablesBreakdown == ConsumablesBreakdown(consumables, printTimeHours)
      consumablesCost  == ConsumablesCost(consumablesBreakdown)
      laborCost        == Mul(laborHourlyRate, laborHours)
      subtotal         == Subtotal(filamentCost, electricityCost, depreciationCost,
                                   consumablesCost, laborCost)
      effectiveCost    == EffectiveCost(subtotal, failureRate)
      failureBuffer    == FailureBuffer(effectiveCost, subtotal)
      markupAmount     == MarkupAmount(effectiveCost, markupPercent)
      total            == Total(effectiveCost, markupAmount)
      percentages      == CalcPercentages(filamentCost, electricityCost,
                            depreciationCost, consumablesCost, laborCost, subtotal)
  IN  IF ~printer.amsMethods
      THEN [kind |-> "TypeError"]
      ELSE [kind |-> "ok",
            breakdown |->
              [filament     |-> [grams |-> filamentGrams,
                                 pricePerGram |-> Filament_getPricePerGram(filament),
                                 cost |-> filamentCost],
               electricity  |-> [watts |-> powerWatts, hours |-> printTimeHours,
                                 kwh |-> energyKwh, rate |-> electricityRate,
                                 cost |-> electricityCost],
               depreciation |-> [ratePerHour |-> Printer_getDepreciationPerHour(printer),
                                 printerCost |-> printerDepreciationCost,
                                 amsRatePerHour |-> Printer_getAmsDepreciationPerHour(printer),
                                 amsCost |-> amsDepreciationCost,
                                 cost |-> depreciationCost],
               consumables  |-> [items |-> consumablesBreakdown,
                                 totalCost |-> consumablesCost],
               labor        |-> [hourlyRate |-> laborHourlyRate, hours |-> laborHours,
                                 cost |-> laborCost]],
            subtotal      |-> subtotal,
            failureRate   |-> failureRate,
            failureBuffer |-> failureBuffer,
            markupPercent |-> markupPercent,
            markupAmount  |-> markupAmount,
            total         |-> total,
            percentages   |-> percentages,
            params |-> [printTimeMinutes |-> printTimeMinutes,
                        filamentGrams    |-> filamentGrams,
                        electricityRate  |-> electricityRate,
                        failureRate      |-> failureRate,
                        laborHourlyRate  |-> laborHourlyRate,
                        laborHours       |-> laborHours,
                        markupPercent    |-> markupPercent,
                        printerId        |-> printer.id,
                        filamentId       |-> filament.id,
                        consumableIds    |-> [i \in DOMAIN consumables |-> consumables[i].id]]]

(***************************************************************************)
(* State                                                                   *)
(***************************************************************************)
VARIABLES
  params,      \* the request whose entities and usage numbers the calls use
  result,      \* what the call made on the request produced, if one was made
  consumable,  \* a Consumable instance that is used and replaced over time
  now,         \* the wall clock read by new Date()
  record,      \* the plain record last produced by consumable.toJSON(), if any
  shared,      \* whether record and consumable hold the same replacementHistory array
  job,         \* a PrintJob instance
  call,        \* the operation and arguments of a call to an engine or model function
  store,       \* what localStorage holds under the five keys of the StorageManager
  exported,    \* the file last produced by exportAll, if any
  printerInst  \* a Printer instance

vars == <<params, result, consumable, now, record, shared, job, call, store, exported, printerInst>>

\* the state of the storage
storageVars == <<store, exported>>

\* the state of the consumable life cycle
consumableVars == <<consumable, now, record, shared>>

(***************************************************************************)
(* Bounds and input sets                                                   *)
(***************************************************************************)
\* longest consumables list of a request
MaxConsumables == 2

\* all sequences over S of length at most n
RECURSIVE SeqsUpTo(_, _)
SeqsUpTo(S, n) ==
  IF n = 0 THEN {<< >>}
  ELSE LET shorter == SeqsUpTo(S, n - 1)
       IN  shorter \cup {Append(q, x) : q \in shorter, x \in S}

\* an optional parameter: undefined, or one of the values of S
Optional(S) == {<< >>} \cup {<<v>> : v \in S}

LifetimeValues == {Int2Num(-1), Zero, Int2Num(5000)}

AmsModules ==
  {[powerConsumption |-> [working |-> Int2Num(10)],
    purchasePrice |-> Int2Num(350),
    estimatedLifetimeHours |-> Int2Num(5000)]}

Printers ==
  {[id |-> "p1",
    powerConsumption |-> [printing |-> Int2Num(120)],
    purchasePrice |-> Int2Num(300),
    estimatedLifetimeHours |-> l,
    currentHours |-> Zero,
    hasAms |-> h,
    ams |-> a,
    amsMethods |-> m] :
      l \in LifetimeValues, h \in BOOLEAN, a \in Optional(AmsModules), m \in BOOLEAN}

Filaments ==
  {[id |-> "f1", spoolPrice |-> Int2Num(25), spoolWeight |-> w] :
      w \in {Zero, Thousand}}

Consumables ==
  {[id |-> "c1", unitPrice |-> Int2Num(8), estimatedLifetimeHours |-> Int2Num(500),
    currentHours |-> Zero],
   [id |-> "c2", unitPrice |-> Int2Num(25), estimatedLifetimeHours |-> Zero,
    currentHours |-> Zero]}

Requests ==
  [printer          : Printers,
   filament         : Filaments,
   consumables      : Optional(SeqsUpTo(Consumables, MaxConsumables)),
   printTimeMinutes : {Zero, Int2Num(90)},
   filamentGrams    : {Zero, Int2Num(20)},
   electricityRate  : Optional({Frac(1, 5)}),
   failureRate      : Optional({Zero, Frac(1, 2), One, Frac(3, 2)}),
   laborHourlyRate  : Optional({Int2Num(20)}),
   laborHours       : Optional({Frac(1, 2)}),
   markupPercent    : Optional({Int2Num(20)})]

NoResult == [kind |-> "none"]

\* no print job is held
NoJob == [kind |-> "none"]

\* no call is made
NoCall == [op |-> "none"]

\* no printer instance is held
NoPrinter == [kind |-> "none"]

\* localStorage without any of the five keys: << >> is a key that is not set
EmptyStore ==
  [printers |-> << >>, filaments |-> << >>, consumables |-> << >>,
   printHistory |-> << >>, settings |-> << >>]

\* the value of a call to a method without a return statement
Undefined == [kind |-> "undefined"]

\* the request held fixed while the consumable life cycle is explored
ExampleRequest ==
  [printer          |-> [id |-> "p1",
                         powerConsumption |-> [printing |-> Int2Num(120)],
                         purchasePrice |-> Int2Num(300),
                         estimatedLifetimeHours |-> Int2Num(5000),
                         currentHours |-> Zero,
                         hasAms |-> FALSE, ams |-> << >>, amsMethods |-> FALSE],
   filament         |-> [id |-> "f1", spoolPrice |-> Int2Num(25),
                         spoolWeight |-> Thousand],
   consumables      |-> << >>,
   printTimeMinutes |-> Int2Num(90),
   filamentGrams    |-> Int2Num(20),
   electricityRate  |-> << >>,
   failureRate      |-> << >>,
   laborHourlyRate  |-> << >>,
   laborHours       |-> << >>,
   markupPercent    |-> << >>]

\* most usages recorded between two replacements
MaxPrints == 1

\* most replacements recorded
MaxReplacements == 2

\* last value of the clock
MaxClock == 1

\* the <<hours, grams>> a recorded usage may carry (0 is both parameters' default)
Usages == {<<Zero, Zero>>, <<Frac(1, 2), Int2Num(20)>>, <<Int2Num(3), Zero>>}

\* thresholds needsReplacement is asked about (90 is the parameter's default)
Thresholds == {Zero, Int2Num(25), Int2Num(90), Hundred}

\* new Consumable(data) for the records the model starts from
NewConsumable(lifetime, hours, quantity) ==
  [id |-> "c1",
   printerId |-> << >>,
   unitPrice |-> Int2Num(8),
   quantity |-> quantity,
   estimatedLifetimeHours |-> lifetime,
   currentHours |-> hours,
   currentPrints |-> 0,
   currentGrams |-> Zero,
   lastReplaced |-> << >>,
   replacementHistory |-> << >>,
   updatedAt |-> 0]

InitialConsumables ==
  {NewConsumable(l, h, q) :
      l \in {Int2Num(-1), Zero, Int2Num(2)}, h \in {Zero, One}, q \in {0, 2}}

(***************************************************************************)
(* Cost calculation: one request, one call                                 *)
(***************************************************************************)
Init ==
  /\ params \in Requests
  /\ result = NoResult
  /\ consumable = NewConsumable(Int2Num(2), Zero, 2)
  /\ now = 0
  /\ record = << >>
  /\ shared = FALSE
  /\ printerInst = NoPrinter
  /\ store = EmptyStore
  /\ exported = << >>
  /\ job = NoJob
  /\ call = NoCall

\* calculate that books the print time on the printer
Calculate_AccruesHours ==
  /\ result.kind \in {"none", "ok", "TypeError"}
  /\ result' = calculate(params)
  /\ params' = [params EXCEPT !.printer.currentHours =
                                Add(@, Div(params.printTimeMinutes, Sixty))]
  /\ UNCHANGED <<consumableVars, job, call, printerInst, storageVars>>

\* costCalculator.calculate(params), called for the first time or once more
Calculate ==
  /\ result.kind \in {"none", "ok", "TypeError"}
  /\ result' = calculate(params)
  /\ UNCHANGED <<params, consumableVars, job, call, printerInst, storageVars>>

\* params.printer.getElectricityCost(printTimeMinutes, electricityRate)
GetElectricityCost ==
  /\ result = NoResult
  /\ result' = [kind  |-> "electricityCost",
                value |-> Printer_getElectricityCost(params.printer,
                            params.printTimeMinutes,
                            Default(params.electricityRate, EngineElectricityRate))]
  /\ UNCHANGED <<params, consumableVars, job, call, printerInst, storageVars>>

\* CostCalculation.quickCalculate; q holds each optional parameter as << >>
\* (left out) or <<v>>
quickCalculate(q) ==
  LET electricityRate      == Default(q.electricityRate, EngineElectricityRate)
      printerWatts         == Default(q.printerWatts, Int2Num(120))
      printerCost          == Default(q.printerCost, Int2Num(300))
      printerLifetimeHours == Default(q.printerLifetimeHours, Int2Num(5000))
      consumablesPerHour   == Default(q.consumablesPerHour, Frac(1, 20))
      failureRate          == Default(q.failureRate, Frac(1, 20))
      printTimeHours       == Div(q.printTimeMinutes, Sixty)
      filamentCost         == Mul(q.filamentGrams, q.filamentPricePerGram)
      electricityCost      == Mul(Mul(Div(printerWatts, Thousand), printTimeHours),
                                  electricityRate)
      depreciationCost     == Mul(Div(printerCost, printerLifetimeHours), printTimeHours)
      consumablesCost      == Mul(consumablesPerHour, printTimeHours)
      subtotal             == Add(Add(Add(filamentCost, electricityCost), depreciationCost),
                                  consumablesCost)
  IN  Div(subtotal, Sub(One, failureRate))

\* the sum of the per-hour costs of the consumables
RECURSIVE PerHourSum(_)
PerHourSum(consumables) ==
  IF consumables = << >> THEN Zero
  ELSE Add(PerHourSum(SubSeq(consumables, 1, Len(consumables) - 1)),
           Consumable_getCostPerHour(consumables[Len(consumables)]))

\* the parameters of quickCalculate that describe the same print as a request
\* of calculate
QuickParams(request) ==
  [filamentGrams        |-> request.filamentGrams,
   filamentPricePerGram |-> Filament_getPricePerGram(request.filament),
   printTimeMinutes     |-> request.printTimeMinutes,
   electricityRate      |-> request.electricityRate,
   printerWatts         |-> <<request.printer.powerConsumption.printing>>,
   printerCost          |-> <<request.printer.purchasePrice>>,
   printerLifetimeHours |-> <<request.printer.estimatedLifetimeHours>>,
   consumablesPerHour   |-> <<PerHourSum(Default(request.consumables, << >>))>>,
   failureRate          |-> request.failureRate]

\* costCalculator.quickCalculate(params), for the print the request describes,
\* called for the first time or once more
QuickCalculate ==
  /\ result.kind \in {"none", "quickTotal"}
  /\ result' = [kind |-> "quickTotal", value |-> quickCalculate(QuickParams(params))]
  /\ UNCHANGED <<params, consumableVars, job, call, printerInst, storageVars>>

Next == Calculate \/ GetElectricityCost \/ QuickCalculate

Spec == Init /\ [][Next]_vars

(***************************************************************************)
(* Consumable life cycle: usage and replacement                            *)
(***************************************************************************)
\* addUsage without the usage count
addUsage_NoCount(c, hours, grams, t) ==
  [c EXCEPT !.currentHours  = Add(@, hours),
            !.currentGrams  = Add(@, grams),
            !.updatedAt     = t]

\* Consumable.addUsage
addUsage(c, hours, grams, t) ==
  [c EXCEPT !.currentHours  = Add(@, hours),
            !.currentGrams  = Add(@, grams),
            !.currentPrints = @ + 1,
            !.updatedAt     = t]

\* markReplaced decrementing the quantity without the floor at 0
markReplaced_NoFloor(c, t) ==
  [c EXCEPT !.replacementHistory =
                Append(@, [date |-> t,
                           hoursUsed |-> c.currentHours,
                           gramsUsed |-> c.currentGrams,
                           printsCompleted |-> c.currentPrints]),
            !.currentHours  = Zero,
            !.currentGrams  = Zero,
            !.currentPrints = 0,
            !.lastReplaced  = <<t>>,
            !.quantity      = @ - 1,
            !.updatedAt     = t]

\* Consumable.markReplaced
markReplaced(c, t) ==
  [c EXCEPT !.replacementHistory =
                Append(@, [date |-> t,
                           hoursUsed |-> c.currentHours,
                           gramsUsed |-> c.currentGrams,
                           printsCompleted |-> c.currentPrints]),
            !.currentHours  = Zero,
            !.currentGrams  = Zero,
            !.currentPrints = 0,
            !.lastReplaced  = <<t>>,
            !.quantity      = IF @ - 1 > 0 THEN @ - 1 ELSE 0,
            !.updatedAt     = t]

InitConsumable ==
  /\ params = ExampleRequest
  /\ result = NoResult
  /\ consumable \in InitialConsumables
  /\ now = 0
  /\ record = << >>
  /\ shared = FALSE
  /\ printerInst = NoPrinter
  /\ store = EmptyStore
  /\ exported = << >>
  /\ job = NoJob
  /\ call = NoCall

\* consumable.addUsage(hours, grams)
AddUsage ==
  /\ consumable.currentPrints < MaxPrints
  /\ \E usage \in Usages :
       consumable' = addUsage(consumable, usage[1], usage[2], now)
  /\ result' = Undefined
  /\ UNCHANGED <<params, now, record, shared, job, call, printerInst, storageVars>>

\* consumable.markReplaced()
MarkReplaced ==
  /\ Len(consumable.replacementHistory) < MaxReplacements
  /\ consumable' = markReplaced(consumable, now)
  /\ record' = IF shared
               THEN <<[record[1] EXCEPT !.replacementHistory =
                                          consumable'.replacementHistory]>>
               ELSE record
  /\ result' = Undefined
  /\ UNCHANGED <<params, now, shared, job, call, printerInst, storageVars>>

\* time passes
Tick ==
  /\ now < MaxClock
  /\ now' = now + 1
  /\ UNCHANGED <<params, result, consumable, record, shared, job, call, printerInst, storageVars>>

NextConsumable == AddUsage \/ MarkReplaced \/ Tick

SpecConsumable == InitConsumable /\ [][NextConsumable]_vars

(***************************************************************************)
(* Consumable persistence cycle: toJSON, fromJSON, usage and replacement   *)
(***************************************************************************)
\* Consumable.toJSON: every field is copied, the history into a new array
Consumable_toJSON(c) ==
  [id |-> c.id,
   printerId |-> c.printerId,
   unitPrice |-> c.unitPrice,
   quantity |-> c.quantity,
   estimatedLifetimeHours |-> c.estimatedLifetimeHours,
   currentHours |-> c.currentHours,
   currentPrints |-> c.currentPrints,
   currentGrams |-> c.currentGrams,
   lastReplaced |-> c.lastReplaced,
   replacementHistory |-> [i \in 1..Len(c.replacementHistory) |-> c.replacementHistory[i]],
   updatedAt |-> c.updatedAt]

\* fromJSON forgetting the replacement history
Consumable_fromJSON_NoHistory(data) ==
  [id |-> data.id,
   printerId |-> OrNullString(data.printerId),
   unitPrice |-> data.unitPrice,
   quantity |-> data.quantity,
   estimatedLifetimeHours |-> data.estimatedLifetimeHours,
   currentHours |-> data.currentHours,
   currentPrints |-> data.currentPrints,
   currentGrams |-> data.currentGrams,
   lastReplaced |-> data.lastReplaced,
   replacementHistory |-> << >>,
   updatedAt |-> data.updatedAt]

\* Consumable.fromJSON, i.e. new Consumable(data), for a record in which
\* every field is present: the instance takes the record's values and keeps
\* the record's replacementHistory array itself
Consumable_fromJSON(data) ==
  [id |-> data.id,
   printerId |-> OrNullString(data.printerId),
   unitPrice |-> data.unitPrice,
   quantity |-> data.quantity,
   estimatedLifetimeHours |-> data.estimatedLifetimeHours,
   currentHours |-> data.currentHours,
   currentPrints |-> data.currentPrints,
   currentGrams |-> data.currentGrams,
   lastReplaced |-> data.lastReplaced,
   replacementHistory |-> data.replacementHistory,
   updatedAt |-> data.updatedAt]

\* record = consumable.toJSON()
ToJSON ==
  /\ record' = <<Consumable_toJSON(consumable)>>
  /\ shared' = FALSE
  /\ UNCHANGED <<params, result, consumable, now, job, call, printerInst, storageVars>>

\* consumable = Consumable.fromJSON(record), for the record of the consumable
\* as it is now
FromJSON ==
  /\ record = <<Consumable_toJSON(consumable)>>
  /\ ~shared
  /\ consumable' = Consumable_fromJSON(record[1])
  /\ shared' = TRUE
  /\ UNCHANGED <<params, result, now, record, job, call, printerInst, storageVars>>

NextConsumableRecord == AddUsage \/ MarkReplaced \/ ToJSON \/ FromJSON

SpecConsumableRecord == InitConsumable /\ [][NextConsumableRecord]_vars

(***************************************************************************)
(* Properties of calculate                                                 *)
(***************************************************************************)
Returned == result.kind = "ok"

\* the request's parameters after the defaults are applied
ReqElectricityRate == Default(params.electricityRate, EngineElectricityRate)

ReqConsumables == Default(params.consumables, << >>)

ReqHours == Div(params.printTimeMinutes, Sixty)

\* subtotal / (1 - failureRate) below 1, subtotal from 1 on
ExpectedEffectiveCost ==
  IF Lt(result.failureRate, One)
  THEN Div(result.subtotal, Sub(One, result.failureRate))
  ELSE result.subtotal

\* C1: calculate returns a breakdown and raises no exception for every
\* request whose printer is an instance of class Printer, with or without a
\* module attached, for all numeric usage parameters.
C1_NoException ==
  (result.kind \in {"ok", "TypeError"} /\ ~params.printer.amsMethods) =>
    result.kind = "ok"

\* C2: the returned subtotal is the sum of the five component costs reported
\* in the breakdown: filament, electricity, depreciation, consumables, labor.
C2_SubtotalIsSum ==
  Returned =>
    result.subtotal =
      Add(Add(Add(Add(result.breakdown.filament.cost,
                      result.breakdown.electricity.cost),
                  result.breakdown.depreciation.cost),
              result.breakdown.consumables.totalCost),
          result.breakdown.labor.cost)

\* a returned breakdown in which all five components are non-zero
C2_Witness ==
  /\ Returned
  /\ Gt(result.breakdown.filament.cost, Zero)
  /\ Gt(result.breakdown.electricity.cost, Zero)
  /\ Gt(result.breakdown.depreciation.cost, Zero)
  /\ Gt(result.breakdown.consumables.totalCost, Zero)
  /\ Gt(result.breakdown.labor.cost, Zero)

C4_FailureBuffer ==
  Returned =>
    /\ IsFinite(result.failureBuffer) /\ IsFinite(result.total)
    /\ Lt(result.failureRate, One) =>
         /\ result.failureBuffer =
              Div(Mul(result.subtotal, result.failureRate),
                  Sub(One, result.failureRate))
         /\ Add(result.subtotal, result.failureBuffer) =
              Div(result.subtotal, Sub(One, result.failureRate))
    /\ Ge(result.failureRate, One) =>
         /\ result.failureBuffer = Zero
         /\ Sub(result.total, result.markupAmount) = result.subtotal

\* calculate returned for failureRate = 1 and a positive subtotal
C4_Witness ==
  /\ Returned
  /\ result.failureRate = One
  /\ Gt(result.subtotal, Zero)

\* C5: markupAmount = effectiveCost x markupPercent / 100, on the
\* failure-adjusted cost; total = effectiveCost + markupAmount; with
\* markupPercent 0 the total is effectiveCost.
C5_MarkupAfterBuffer ==
  Returned =>
    /\ result.markupAmount =
         Div(Mul(ExpectedEffectiveCost, result.markupPercent), Hundred)
    /\ result.total = Add(ExpectedEffectiveCost, result.markupAmount)
    /\ result.markupPercent = Zero => result.total = ExpectedEffectiveCost

\* a returned breakdown with a markup, whose effective cost exceeds its subtotal
C5_Witness ==
  /\ Returned
  /\ Gt(result.markupPercent, Zero)
  /\ Gt(ExpectedEffectiveCost, result.subtotal)

\* the five percentages of a returned breakdown, summed
PercentageSum ==
  Add(Add(Add(Add(result.percentages.filament, result.percentages.electricity),
              result.percentages.depreciation),
          result.percentages.consumables),
      result.percentages.labor)

\* C6: each percentage is its component cost / subtotal x 100 and the five sum
\* to 100 when subtotal > 0; all five are 0 when subtotal <= 0.
C6_Percentages ==
  Returned =>
    /\ Gt(result.subtotal, Zero) =>
         /\ result.percentages.filament =
              Mul(Div(result.breakdown.filament.cost, result.subtotal), Hundred)
         /\ result.percentages.electricity =
              Mul(Div(result.breakdown.electricity.cost, result.subtotal), Hundred)
         /\ result.percentages.depreciation =
              Mul(Div(result.breakdown.depreciation.cost, result.subtotal), Hundred)
         /\ result.percentages.consumables =
              Mul(Div(result.breakdown.consumables.totalCost, result.subtotal), Hundred)
         /\ result.percentages.labor =
              Mul(Div(result.breakdown.labor.cost, result.subtotal), Hundred)
         /\ PercentageSum = Hundred
    /\ Le(result.subtotal, Zero) =>
         \A k \in DOMAIN result.percentages : result.percentages[k] = Zero

\* a returned breakdown with a positive subtotal, a total above it, and at
\* least two components with a share
C6_Witness ==
  /\ Returned
  /\ Gt(result.subtotal, Zero)
  /\ Gt(result.total, result.subtotal)
  /\ Gt(result.percentages.filament, Zero)
  /\ Gt(result.percentages.labor, Zero)

\* C7: Printer.getElectricityCost charges printing watts plus the attached
\* module's working watts, the power calculate charges for the same printer.
C7_ElectricityIncludesAms ==
  result.kind = "electricityCost" =>
    result.value =
      Mul(Div(Mul(PowerWatts(params.printer), ReqHours), Thousand),
          ReqElectricityRate)

\* C8: for a Printer instance, calculate reports a depreciation cost of
\* depreciationPerHour x minutes/60 plus the attached module's purchasePrice /
\* estimatedLifetimeHours x minutes/60, the module part being 0 when none is
\* attached.
C8_DepreciationIncludesAms ==
  (result.kind \in {"ok", "TypeError"} /\ ~params.printer.amsMethods) =>
    /\ result.kind = "ok"
    /\ result.breakdown.depreciation.cost =
         Add(Mul(Printer_getDepreciationPerHour(params.printer), ReqHours),
             IF AmsAttached(params.printer)
             THEN Mul(Div(params.printer.ams[1].purchasePrice,
                          params.printer.ams[1].estimatedLifetimeHours), ReqHours)
             ELSE Zero)

\* C9: getDepreciationPerHour, getCostPerHour and getPricePerGram return 0 on
\* a non-positive denominator, and the component of calculate computed from
\* them is then 0.
C9_DegenerateIsZero ==
  /\ Le(params.printer.estimatedLifetimeHours, Zero) =>
       /\ Printer_getDepreciationPerHour(params.printer) = Zero
       /\ Returned => result.breakdown.depreciation.printerCost = Zero
  /\ Le(params.filament.spoolWeight, Zero) =>
       /\ Filament_getPricePerGram(params.filament) = Zero
       /\ Returned => result.breakdown.filament.cost = Zero
  /\ \A i \in DOMAIN ReqConsumables :
       Le(ReqConsumables[i].estimatedLifetimeHours, Zero) =>
         /\ Consumable_getCostPerHour(ReqConsumables[i]) = Zero
         /\ Returned => result.breakdown.consumables.items[i].cost = Zero

\* calculate returned for a zero-lifetime printer, a zero-weight spool and a
\* zero-lifetime consumable, with print time and filament used
C9_Witness ==
  /\ Returned
  /\ Le(params.printer.estimatedLifetimeHours, Zero)
  /\ params.filament.spoolWeight = Zero
  /\ \E i \in DOMAIN ReqConsumables : ReqConsumables[i].estimatedLifetimeHours = Zero
  /\ Gt(params.printTimeMinutes, Zero)
  /\ Gt(params.filamentGrams, Zero)

(***************************************************************************)
(* Properties of the consumable life cycle                                 *)
(***************************************************************************)
\* currentHours / estimatedLifetimeHours x 100
WearRatio ==
  Mul(Div(consumable.currentHours, consumable.estimatedLifetimeHours), Hundred)

\* C10: getWearPercentage is min(100, currentHours / estimatedLifetimeHours x
\* 100), and 0 for a lifetime <= 0; after any usages and replacements of a
\* consumable that starts with currentHours >= 0 it lies in [0, 100], and
\* needsReplacement(threshold) is true exactly when it is >= threshold.
C10_WearPercentage ==
  LET wear == Consumable_getWearPercentage(consumable)
  IN  /\ Le(consumable.estimatedLifetimeHours, Zero) => wear = Zero
      /\ Gt(consumable.estimatedLifetimeHours, Zero) =>
           /\ Le(WearRatio, Hundred) => wear = WearRatio
           /\ Gt(WearRatio, Hundred) => wear = Hundred
      /\ Le(Zero, wear) /\ Le(wear, Hundred)
      /\ \A threshold \in Thresholds :
           Consumable_needsReplacement(consumable, threshold)
             <=> (Lt(threshold, wear) \/ threshold = wear)

\* a consumable that was replaced once and then used beyond its lifetime
C10_Witness ==
  /\ Len(consumable.replacementHistory) > 0
  /\ consumable.currentPrints > 0
  /\ Gt(consumable.estimatedLifetimeHours, Zero)
  /\ Gt(consumable.currentHours, consumable.estimatedLifetimeHours)

\* C11: markReplaced appends exactly one snapshot holding the three counters
\* as they were before the call, resets the counters to 0, decrements quantity
\* by 1 but never below 0 and sets lastReplaced; unitPrice and
\* estimatedLifetimeHours are unchanged.
C11_MarkReplaced ==
  [][MarkReplaced =>
       /\ Len(consumable'.replacementHistory) = Len(consumable.replacementHistory) + 1
       /\ SubSeq(consumable'.replacementHistory, 1, Len(consumable.replacementHistory))
            = consumable.replacementHistory
       /\ LET snapshot == consumable'.replacementHistory[Len(consumable'.replacementHistory)]
          IN  /\ snapshot.hoursUsed = consumable.currentHours
              /\ snapshot.gramsUsed = consumable.currentGrams
              /\ snapshot.printsCompleted = consumable.currentPrints
       /\ consumable'.currentHours = Zero
       /\ consumable'.currentGrams = Zero
       /\ consumable'.currentPrints = 0
       /\ consumable'.quantity >= 0
       /\ consumable'.quantity =
            (IF consumable.quantity >= 1 THEN consumable.quantity - 1 ELSE 0)
       /\ consumable'.lastReplaced = <<now>>
       /\ consumable'.unitPrice = consumable.unitPrice
       /\ consumable'.estimatedLifetimeHours = consumable.estimatedLifetimeHours]_vars

\* a used consumable replaced twice, the stock being empty at the second time
C11_Witness ==
  /\ Len(consumable.replacementHistory) = 2
  /\ consumable.replacementHistory[1].printsCompleted > 0
  /\ Gt(consumable.replacementHistory[1].hoursUsed, Zero)
  /\ consumable.quantity = 0
  /\ consumable.lastReplaced # << >>

\* what addUsage does to the consumable: the counters grow, the rest stays
UsageRecorded ==
  /\ \E usage \in Usages :
       /\ consumable'.currentHours = Add(consumable.currentHours, usage[1])
       /\ consumable'.currentGrams = Add(consumable.currentGrams, usage[2])
  /\ consumable'.currentPrints = consumable.currentPrints + 1
  /\ consumable'.quantity = consumable.quantity
  /\ consumable'.replacementHistory = consumable.replacementHistory
  /\ consumable'.lastReplaced = consumable.lastReplaced
  /\ consumable'.unitPrice = consumable.unitPrice
  /\ consumable'.estimatedLifetimeHours = consumable.estimatedLifetimeHours

\* C12 as stated: addUsage returns the updated consumable state, in which
\* currentHours and currentGrams have grown by the arguments and the usage
\* count by 1, quantity, replacementHistory, lastReplaced, unitPrice and
\* estimatedLifetimeHours being unchanged.
C12_ReturnsUpdatedState ==
  [][AddUsage =>
       /\ result' = [kind |-> "consumable", value |-> consumable']
       /\ UsageRecorded]_vars

\* C12 amended: addUsage returns nothing and updates the consumable in place,
\* where currentHours and currentGrams grow by the arguments and the usage
\* count by 1, quantity, replacementHistory, lastReplaced, unitPrice and
\* estimatedLifetimeHours being unchanged.
C12_UpdatesInPlace ==
  [][AddUsage => (result' = Undefined /\ UsageRecorded)]_vars

\* a replaced consumable on which a usage with hours and grams was recorded
C12_Witness ==
  /\ result = Undefined
  /\ consumable.currentPrints = 1
  /\ Gt(consumable.currentHours, Zero)
  /\ Gt(consumable.currentGrams, Zero)
  /\ Len(consumable.replacementHistory) > 0

\* whether sequence p is an initial part of sequence q
IsPrefix(p, q) == Len(p) <= Len(q) /\ SubSeq(q, 1, Len(p)) = p

\* C13: replacementHistory is append-only under addUsage, markReplaced, toJSON
\* and fromJSON of the consumable's own record: the entries it has stay as
\* they are and where they are, and its length grows by exactly one per
\* markReplaced and by zero otherwise.
C13_HistoryAppendOnly ==
  [][/\ IsPrefix(consumable.replacementHistory, consumable'.replacementHistory)
     /\ Len(consumable'.replacementHistory) =
          Len(consumable.replacementHistory) + (IF MarkReplaced THEN 1 ELSE 0)]_vars

\* a consumable reloaded from its record that holds two replacements
C13_Witness ==
  /\ shared
  /\ Len(consumable.replacementHistory) = 2
  /\ consumable.replacementHistory[1] # consumable.replacementHistory[2]

(***************************************************************************)
(* PrintJob model (class PrintJob).  A plain record carries each field as   *)
(* << >> (absent or null) or <<v>>; an instance holds a nullable field the  *)
(* same way and every other field as its value.  Of the fields that the     *)
(* constructor treats alike, one of each kind is kept.                      *)
(***************************************************************************)
\* data.costs?.field ?? 0
CostField(costs, field) == IF costs = << >> THEN Zero ELSE Default(costs[1][field], Zero)

\* new PrintJob(data), with uuid the value of crypto.randomUUID() and t the clock
PrintJob_new(data, uuid, t) ==
  [id                |-> OrString(data.id, uuid),
   name              |-> OrString(data.name, "Untitled Print"),
   printerId         |-> OrNullString(data.printerId),
   printTimeMinutes  |-> Default(data.printTimeMinutes, Zero),
   filamentUsedGrams |-> Default(data.filamentUsedGrams, Zero),
   layerHeight       |-> OrNullNumber(data.layerHeight),
   costs             |-> [filament |-> CostField(data.costs, "filament"),
                          subtotal |-> CostField(data.costs, "subtotal"),
                          total    |-> CostField(data.costs, "total")],
   status            |-> OrString(data.status, "calculated"),
   actualOutcome     |-> OrNullString(data.actualOutcome),
   tags              |-> Default(data.tags, << >>),
   createdAt         |-> Default(data.createdAt, t),
   completedAt       |-> data.completedAt]

\* PrintJob.getCostPerGram
PrintJob_getCostPerGram(j) ==
  IF Le(j.filamentUsedGrams, Zero) THEN Zero ELSE Div(j.costs.total, j.filamentUsedGrams)

\* PrintJob.getCostPerHour
PrintJob_getCostPerHour(j) ==
  IF Le(j.printTimeMinutes, Zero) THEN Zero
  ELSE Div(j.costs.total, Div(j.printTimeMinutes, Sixty))

\* markCompleted that also forgets the recorded outcome
markCompleted_ClearsOutcome(j, t) ==
  [j EXCEPT !.status = "completed", !.actualOutcome = << >>, !.completedAt = <<t>>]

\* PrintJob.markCompleted
markCompleted(j, t) == [j EXCEPT !.status = "completed", !.completedAt = <<t>>]

\* PrintJob.markFailed; reason is << >> when the argument is omitted or null
markFailed(j, reason, t) ==
  [j EXCEPT !.status = "failed", !.actualOutcome = reason, !.completedAt = <<t>>]

\* this.tags.includes(tag)
Includes(tags, tag) == \E i \in 1..Len(tags) : tags[i] = tag

\* this.tags.indexOf(tag), counted from 1, for a tag that is included
IndexOf(tags, tag) == CHOOSE i \in 1..Len(tags) : tags[i] = tag /\ \A k \in 1..(i - 1) : tags[k] # tag

\* PrintJob.addTag
addTag(j, tag) == IF Includes(j.tags, tag) THEN j ELSE [j EXCEPT !.tags = Append(@, tag)]

\* PrintJob.removeTag
removeTag(j, tag) ==
  IF Includes(j.tags, tag)
  THEN [j EXCEPT !.tags = SubSeq(@, 1, IndexOf(@, tag) - 1) \o
                          SubSeq(@, IndexOf(@, tag) + 1, Len(@))]
  ELSE j

\* PrintJob.toJSON: every field is copied, costs and tags into new objects
PrintJob_toJSON(j) ==
  [id                |-> j.id,
   name              |-> j.name,
   printerId         |-> j.printerId,
   printTimeMinutes  |-> j.printTimeMinutes,
   filamentUsedGrams |-> j.filamentUsedGrams,
   layerHeight       |-> j.layerHeight,
   costs             |-> [filament |-> j.costs.filament,
                          subtotal |-> j.costs.subtotal,
                          total    |-> j.costs.total],
   status            |-> j.status,
   actualOutcome     |-> j.actualOutcome,
   tags              |-> [i \in 1..Len(j.tags) |-> j.tags[i]],
   createdAt         |-> j.createdAt,
   completedAt       |-> j.completedAt]

\* the record toJSON returns, read as the argument of the constructor
AsData(json) ==
  [id                |-> <<json.id>>,
   name              |-> <<json.name>>,
   printerId         |-> json.printerId,
   printTimeMinutes  |-> <<json.printTimeMinutes>>,
   filamentUsedGrams |-> <<json.filamentUsedGrams>>,
   layerHeight       |-> json.layerHeight,
   costs             |-> <<[filament |-> <<json.costs.filament>>,
                            subtotal |-> <<json.costs.subtotal>>,
                            total    |-> <<json.costs.total>>]>>,
   status            |-> <<json.status>>,
   actualOutcome     |-> json.actualOutcome,
   tags              |-> <<json.tags>>,
   createdAt         |-> <<json.createdAt>>,
   completedAt       |-> json.completedAt]

\* PrintJob.clone
clone(j, uuid, t) ==
  PrintJob_new([AsData(PrintJob_toJSON(j)) EXCEPT !.id = <<uuid>>,
                                                  !.createdAt = <<t>>,
                                                  !.completedAt = << >>,
                                                  !.status = <<"calculated">>],
               uuid, t)

\* PrintJob.fromJSON
PrintJob_fromJSON(data, uuid, t) == PrintJob_new(data, uuid, t)

\* the statuses named by the constructor
Statuses == {"calculated", "printing", "completed", "failed"}

\* tags a caller may add or remove
Tags == {"gift", "client"}

\* at most this many tags are put on a job
MaxTags == 2

\* reasons a caller may give to markFailed
Reasons == Optional({"warped"})

\* values of crypto.randomUUID()
Uuids == {"u1", "u2"}

\* the cost records of stored jobs
JobCosts ==
  {<< >>,
   <<[filament |-> <<Int2Num(2)>>, subtotal |-> <<Int2Num(4)>>, total |-> <<Int2Num(5)>>]>>}

\* the plain records a PrintJob is constructed from
JobRecords ==
  [id                : {<<"j1">>},
   name              : {<<"Benchy">>},
   printerId         : Optional({"p1"}),
   printTimeMinutes  : {<<Int2Num(90)>>},
   filamentUsedGrams : {<< >>, <<Int2Num(25)>>},
   layerHeight       : {<<Frac(1, 5)>>},
   costs             : JobCosts,
   status            : {<< >>, <<"printing">>},
   actualOutcome     : {<< >>},
   tags              : {<< >>, <<<<"gift">>>>},
   createdAt         : {<<0>>},
   completedAt       : {<< >>}]

InitPrintJob ==
  /\ params = ExampleRequest
  /\ result = NoResult
  /\ consumable = NewConsumable(Int2Num(2), Zero, 2)
  /\ now = 0
  /\ record = << >>
  /\ shared = FALSE
  /\ printerInst = NoPrinter
  /\ store = EmptyStore
  /\ exported = << >>
  /\ \E data \in JobRecords : job = PrintJob_new(data, "u1", 0)
  /\ call = NoCall

\* job.markCompleted()
MarkCompleted ==
  /\ job' = markCompleted(job, now)
  /\ result' = Undefined
  /\ UNCHANGED <<params, consumableVars, call, printerInst, storageVars>>

\* job.markFailed(reason)
MarkFailed ==
  /\ \E reason \in Reasons : job' = markFailed(job, reason, now)
  /\ result' = Undefined
  /\ UNCHANGED <<params, consumableVars, call, printerInst, storageVars>>

\* job.addTag(tag)
AddTag ==
  /\ Len(job.tags) < MaxTags
  /\ \E tag \in Tags : job' = addTag(job, tag)
  /\ result' = Undefined
  /\ UNCHANGED <<params, consumableVars, call, printerInst, storageVars>>

\* job.removeTag(tag)
RemoveTag ==
  /\ \E tag \in Tags : job' = removeTag(job, tag)
  /\ result' = Undefined
  /\ UNCHANGED <<params, consumableVars, call, printerInst, storageVars>>

\* job.clone()
Clone ==
  /\ \E uuid \in Uuids : result' = [kind |-> "job", value |-> clone(job, uuid, now)]
  /\ UNCHANGED <<params, consumableVars, job, call, printerInst, storageVars>>

\* job.toJSON()
JobToJSON ==
  /\ result' = [kind |-> "record", value |-> PrintJob_toJSON(job)]
  /\ UNCHANGED <<params, consumableVars, job, call, printerInst, storageVars>>

\* job.getCostPerGram()
GetCostPerGram ==
  /\ result' = [kind |-> "costPerGram", value |-> PrintJob_getCostPerGram(job)]
  /\ UNCHANGED <<params, consumableVars, job, call, printerInst, storageVars>>

\* job.getCostPerHour()
GetCostPerHour ==
  /\ result' = [kind |-> "costPerHour", value |-> PrintJob_getCostPerHour(job)]
  /\ UNCHANGED <<params, consumableVars, job, call, printerInst, storageVars>>

NextPrintJob ==
  \/ MarkCompleted \/ MarkFailed \/ AddTag \/ RemoveTag
  \/ Clone \/ JobToJSON \/ GetCostPerGram \/ GetCostPerHour \/ Tick

SpecPrintJob == InitPrintJob /\ [][NextPrintJob]_vars

\* the status changes the life cycle allows
AllowedTransitions ==
  {<<"calculated", "printing">>, <<"printing", "completed">>, <<"printing", "failed">>,
   <<"calculated", "completed">>, <<"calculated", "failed">>}

\* C14: a PrintJob's status is always one of calculated, printing, completed,
\* failed, it changes only along calculated->printing, printing->completed,
\* printing->failed, calculated->completed and calculated->failed, and no
\* operation moves a job out of completed or out of failed.
C14_StatusTransitions ==
  [][/\ job.status \in Statuses
     /\ job'.status \in Statuses
     /\ job'.status # job.status => <<job.status, job'.status>> \in AllowedTransitions]_vars

\* the fields of a job other than status, completedAt and tags
JobFrame(j) ==
  <<j.id, j.name, j.printerId, j.printTimeMinutes, j.filamentUsedGrams, j.layerHeight,
    j.costs, j.actualOutcome, j.createdAt>>

\* the fields of a job other than status, completedAt, actualOutcome and tags
JobFrameButOutcome(j) ==
  <<j.id, j.name, j.printerId, j.printTimeMinutes, j.filamentUsedGrams, j.layerHeight,
    j.costs, j.createdAt>>

\* C15 as stated: every operation of a PrintJob leaves every field other than
\* status, completedAt and tags unchanged.
C15_OnlyStatusCompletedAtTags == [][JobFrame(job') = JobFrame(job)]_vars

\* C15: every operation of a PrintJob (markCompleted, markFailed, addTag,
\* removeTag, clone, toJSON, the getters) leaves its costs, usage parameters,
\* references and every other field unchanged; only status, completedAt,
\* actualOutcome and tags may change, and actualOutcome only by markFailed.
C15_FrameButOutcome ==
  [][/\ JobFrameButOutcome(job') = JobFrameButOutcome(job)
     /\ job'.actualOutcome # job.actualOutcome => MarkFailed]_vars

\* a failed job with a recorded reason and a tag added after creation, after
\* a clone of it was made
C15_Witness ==
  /\ job.status = "failed"
  /\ job.actualOutcome = <<"warped">>
  /\ job.completedAt # << >>
  /\ Len(job.tags) = 2
  /\ result.kind = "job"

(***************************************************************************)
(* Round trip of the entities through fromJSON and toJSON.  A plain record  *)
(* carries each field as << >> (absent or null) or <<v>> (present).         *)
(***************************************************************************)
PRINTER_LIFETIME_HOURS == Int2Num(5000)

PRINTER_POWER_WATTS == Int2Num(120)

\* data.powerConsumption?.printing ?? CONFIG.DEFAULTS.PRINTER_POWER_WATTS
PrintingWatts(power) == IF power = << >> THEN PRINTER_POWER_WATTS ELSE Default(power[1].printing, PRINTER_POWER_WATTS)

\* new Printer(data): the fields the constructor reads; hasAms and ams are
\* not among them
Printer_new(data, uuid, t) ==
  [id                     |-> OrString(data.id, uuid),
   name                   |-> OrString(data.name, ""),
   powerConsumption       |-> [printing |-> PrintingWatts(data.powerConsumption)],
   purchasePrice          |-> Default(data.purchasePrice, Zero),
   estimatedLifetimeHours |-> Default(data.estimatedLifetimeHours, PRINTER_LIFETIME_HOURS),
   currentHours           |-> Default(data.currentHours, Zero),
   defaultFailureRate     |-> Default(data.defaultFailureRate, FAILURE_RATE),
   consumableIds          |-> Default(data.consumableIds, << >>),
   createdAt              |-> Default(data.createdAt, t),
   updatedAt              |-> Default(data.updatedAt, t)]

\* Printer.fromJSON
Printer_fromJSON(data, uuid, t) == Printer_new(data, uuid, t)

\* Printer.toJSON: the record returned, every field of it present
Printer_toJSON(p) ==
  [id                     |-> <<p.id>>,
   name                   |-> <<p.name>>,
   powerConsumption       |-> <<[printing |-> <<p.powerConsumption.printing>>]>>,
   purchasePrice          |-> <<p.purchasePrice>>,
   estimatedLifetimeHours |-> <<p.estimatedLifetimeHours>>,
   currentHours           |-> <<p.currentHours>>,
   defaultFailureRate     |-> <<p.defaultFailureRate>>,
   consumableIds          |-> <<[i \in 1..Len(p.consumableIds) |-> p.consumableIds[i]]>>,
   createdAt              |-> <<p.createdAt>>,
   updatedAt              |-> <<p.updatedAt>>]

\* new Filament(data)
Filament_new(data, uuid, t) ==
  [id          |-> OrString(data.id, uuid),
   name        |-> OrString(data.name, ""),
   material    |-> OrString(data.material, "PLA"),
   spoolWeight |-> Default(data.spoolWeight, Thousand),
   spoolPrice  |-> Default(data.spoolPrice, Int2Num(25)),
   inStock     |-> Default(data.inStock, Zero),
   createdAt   |-> Default(data.createdAt, t)]

\* Filament.fromJSON
Filament_fromJSON(data, uuid, t) == Filament_new(data, uuid, t)

\* Filament.toJSON: the record returned, every field of it present
Filament_toJSON(f) ==
  [id          |-> <<f.id>>,
   name        |-> <<f.name>>,
   material    |-> <<f.material>>,
   spoolWeight |-> <<f.spoolWeight>>,
   spoolPrice  |-> <<f.spoolPrice>>,
   inStock     |-> <<f.inStock>>,
   createdAt   |-> <<f.createdAt>>]

\* printer records as App.savePrinter and the storage hold them
PrinterRecords ==
  [id                     : {<<"p1">>},
   name                   : {<<"X1">>},
   powerConsumption       : {<< >>, <<[printing |-> <<Int2Num(350)>>]>>},
   purchasePrice          : {<<Int2Num(300)>>},
   estimatedLifetimeHours : {<< >>, <<Zero>>, <<Int2Num(8000)>>},
   currentHours           : {<<Zero>>},
   defaultFailureRate     : {<< >>, <<Frac(1, 10)>>},
   consumableIds          : {<< >>, <<<<"c1">>>>},
   createdAt              : {<<0>>},
   updatedAt              : {<<0>>},
   hasAms                 : Optional(BOOLEAN),
   ams                    : Optional(AmsModules)]

\* filament records
FilamentRecords ==
  [id          : Optional({"f1"}),
   name        : {<<"Black PLA">>},
   material    : Optional({"PETG"}),
   spoolWeight : {<< >>, <<Zero>>, <<Int2Num(750)>>},
   spoolPrice  : Optional({Int2Num(30)}),
   inStock     : {<< >>},
   createdAt   : Optional({0})]

\* consumable records: those toJSON gives for new and for replaced consumables
ConsumableRecords ==
  {Consumable_toJSON(c) : c \in InitialConsumables} \cup
  {Consumable_toJSON(markReplaced(addUsage(c, Int2Num(3), Zero, 0), 0)) : c \in InitialConsumables}

\* print job records, a layer height of 0 among them
RoundTripJobRecords ==
  {[d EXCEPT !.layerHeight = h, !.actualOutcome = o, !.completedAt = c] :
     d \in JobRecords, h \in {<< >>, <<Zero>>, <<Frac(1, 5)>>},
     o \in Optional({"warped"}), c \in Optional({1})}

\* the round trips made
RoundTripCalls ==
  {[op |-> "roundTrip", entity |-> "Printer", data |-> d] : d \in PrinterRecords} \cup
  {[op |-> "roundTrip", entity |-> "Filament", data |-> d] : d \in FilamentRecords} \cup
  {[op |-> "roundTrip", entity |-> "Consumable", data |-> d] : d \in ConsumableRecords} \cup
  {[op |-> "roundTrip", entity |-> "PrintJob", data |-> d] : d \in RoundTripJobRecords}

InitRoundTrip ==
  /\ params = ExampleRequest
  /\ result = NoResult
  /\ consumable = NewConsumable(Int2Num(2), Zero, 2)
  /\ now = 0
  /\ record = << >>
  /\ shared = FALSE
  /\ printerInst = NoPrinter
  /\ store = EmptyStore
  /\ exported = << >>
  /\ job = NoJob
  /\ call \in RoundTripCalls

\* Printer.fromJSON(data).toJSON()
RoundTripPrinter ==
  /\ call.op = "roundTrip" /\ call.entity = "Printer"
  /\ \E uuid \in Uuids :
       result' = [kind |-> "roundTrip",
                  value |-> Printer_toJSON(Printer_fromJSON(call.data, uuid, now))]
  /\ UNCHANGED <<params, consumableVars, job, call, printerInst, storageVars>>

\* Filament.fromJSON(data).toJSON()
RoundTripFilament ==
  /\ call.op = "roundTrip" /\ call.entity = "Filament"
  /\ \E uuid \in Uuids :
       result' = [kind |-> "roundTrip",
                  value |-> Filament_toJSON(Filament_fromJSON(call.data, uuid, now))]
  /\ UNCHANGED <<params, consumableVars, job, call, printerInst, storageVars>>

\* Consumable.fromJSON(data).toJSON()
RoundTripConsumable ==
  /\ call.op = "roundTrip" /\ call.entity = "Consumable"
  /\ result' = [kind |-> "roundTrip",
                value |-> Consumable_toJSON(Consumable_fromJSON(call.data))]
  /\ UNCHANGED <<params, consumableVars, job, call, printerInst, storageVars>>

\* PrintJob.fromJSON(data).toJSON()
RoundTripPrintJob ==
  /\ call.op = "roundTrip" /\ call.entity = "PrintJob"
  /\ \E uuid \in Uuids :
       result' = [kind |-> "roundTrip",
                  value |-> AsData(PrintJob_toJSON(PrintJob_fromJSON(call.data, uuid, now)))]
  /\ UNCHANGED <<params, consumableVars, job, call, printerInst, storageVars>>

NextRoundTrip ==
  RoundTripPrinter \/ RoundTripFilament \/ RoundTripConsumable \/ RoundTripPrintJob \/ Tick

SpecRoundTrip == InitRoundTrip /\ [][NextRoundTrip]_vars

\* every field present in the record data is in the record out with the same value
FieldsKept(data, out) ==
  \A f \in DOMAIN data : data[f] # << >> => (f \in DOMAIN out /\ out[f] = data[f])

\* C16: for Printer (its auxiliary module included), Filament, Consumable and
\* PrintJob, fromJSON followed by toJSON yields the same record but for absent
\* optional fields filled with defaults: no field present in the record is
\* dropped or altered.
C16_RoundTrip ==
  result.kind = "roundTrip" =>
    IF call.entity = "Consumable" THEN result.value = call.data
    ELSE FieldsKept(call.data, result.value)

(***************************************************************************)
(* Scenario comparison and break-even analysis (class CostCalculation)      *)
(***************************************************************************)
\* a === b on numbers
StrictEq(a, b) == ~IsNaN(a) /\ ~IsNaN(b) /\ a = b

\* Math.min over the arguments given: Infinity when there are none
RECURSIVE MathMinAll(_)
MathMinAll(xs) ==
  IF xs = << >> THEN Infinity
  ELSE MathMin(MathMinAll(SubSeq(xs, 1, Len(xs) - 1)), xs[Len(xs)])

\* Math.max over the arguments given: -Infinity when there are none
RECURSIVE MathMaxAll(_)
MathMaxAll(xs) ==
  IF xs = << >> THEN Neg(Infinity)
  ELSE MathMax(MathMaxAll(SubSeq(xs, 1, Len(xs) - 1)), xs[Len(xs)])

\* the first total taken for the minimum
MinTotal_First(totals) == IF totals = << >> THEN Infinity ELSE totals[1]

\* minTotal of compareScenarios
MinTotal(totals) == MathMinAll(totals)

\* maxTotal of compareScenarios
MaxTotal(totals) == MathMaxAll(totals)

\* percentFromLowest without the guard on the minimum
PercentFromLowest_Unguarded(total, minTotal) == Mul(Div(Sub(total, minTotal), minTotal), Hundred)

\* percentFromLowest of compareScenarios
PercentFromLowest(total, minTotal) ==
  IF Gt(minTotal, Zero) THEN Mul(Div(Sub(total, minTotal), minTotal), Hundred) ELSE Zero

\* scenario.name || `Scenario ${index + 1}`, with index counted from 0
ScenarioName(scenario, index) ==
  IF scenario.name = << >> \/ scenario.name[1] = "" THEN <<"Scenario", index + 1>>
  ELSE scenario.name[1]

\* CostCalculation.compareScenarios
compareScenarios(scenarios) ==
  LET results  == [i \in 1..Len(scenarios) |->
                     [index  |-> i - 1,
                      name   |-> ScenarioName(scenarios[i], i - 1),
                      result |-> calculate(scenarios[i])]]
      thrown   == \E i \in 1..Len(scenarios) : results[i].result.kind = "TypeError"
      totals   == [i \in 1..Len(scenarios) |-> results[i].result.total]
      minTotal == MinTotal(totals)
      maxTotal == MaxTotal(totals)
  IN  IF thrown THEN [kind |-> "TypeError"]
      ELSE [kind  |-> "comparison",
            value |-> [i \in 1..Len(scenarios) |->
                         [index  |-> results[i].index,
                          name   |-> results[i].name,
                          result |-> results[i].result,
                          isLowest  |-> StrictEq(results[i].result.total, minTotal),
                          isHighest |-> StrictEq(results[i].result.total, maxTotal),
                          differenceFromLowest |-> Sub(results[i].result.total, minTotal),
                          percentFromLowest |->
                            PercentFromLowest(results[i].result.total, minTotal)]]]

\* Math.ceil(x)
Ceil(x) == IF x.d = 0 THEN x ELSE Int2Num(-((-x.n) \div x.d))

\* breakEvenAnalysis that rounds the quantity down
breakEvenAnalysis_Floor(fixedCosts, costPerUnit, pricePerUnit) ==
  LET marginPerUnit == Sub(pricePerUnit, costPerUnit)
  IN  IF Le(marginPerUnit, Zero)
      THEN [kind |-> "breakEven", breakEvenQuantity |-> Infinity,
            marginPerUnit |-> marginPerUnit, profitable |-> FALSE]
      ELSE [kind |-> "breakEven",
            breakEvenQuantity |-> Int2Num(Div(fixedCosts, marginPerUnit).n \div
                                          Div(fixedCosts, marginPerUnit).d),
            marginPerUnit |-> marginPerUnit, profitable |-> TRUE]

\* CostCalculation.breakEvenAnalysis
breakEvenAnalysis(fixedCosts, costPerUnit, pricePerUnit) ==
  LET marginPerUnit == Sub(pricePerUnit, costPerUnit)
  IN  IF Le(marginPerUnit, Zero)
      THEN [kind |-> "breakEven", breakEvenQuantity |-> Infinity,
            marginPerUnit |-> marginPerUnit, profitable |-> FALSE]
      ELSE [kind |-> "breakEven",
            breakEvenQuantity |-> Ceil(Div(fixedCosts, marginPerUnit)),
            marginPerUnit |-> marginPerUnit, profitable |-> TRUE]

\* a printer object that costs nothing to run, with the module methods
FreePrinter ==
  [id |-> "p0", powerConsumption |-> [printing |-> Zero], purchasePrice |-> Zero,
   estimatedLifetimeHours |-> Int2Num(5000), currentHours |-> Zero,
   hasAms |-> FALSE, ams |-> << >>, amsMethods |-> TRUE]

\* a scenario whose only cost is one gram of filament at the given price
FilamentOnly(price, name) ==
  [name             |-> name,
   printer          |-> FreePrinter,
   filament         |-> [id |-> "f0", spoolPrice |-> price, spoolWeight |-> One],
   consumables      |-> << >>,
   printTimeMinutes |-> Zero,
   filamentGrams    |-> One,
   electricityRate  |-> << >>,
   failureRate      |-> <<Zero>>,
   laborHourlyRate  |-> << >>,
   laborHours       |-> << >>,
   markupPercent    |-> << >>]

\* the example request as a scenario, for a printer object with or without
\* the module methods
ExampleScenario(methods) ==
  [name             |-> <<"example">>,
   printer          |-> [ExampleRequest.printer EXCEPT !.amsMethods = methods],
   filament         |-> ExampleRequest.filament,
   consumables      |-> << >>,
   printTimeMinutes |-> Int2Num(90),
   filamentGrams    |-> Int2Num(20),
   electricityRate  |-> << >>,
   failureRate      |-> << >>,
   laborHourlyRate  |-> << >>,
   laborHours       |-> << >>,
   markupPercent    |-> <<Int2Num(20)>>]

\* the scenarios compared
Scenarios ==
  {FilamentOnly(Int2Num(10), << >>), FilamentOnly(Int2Num(7), <<"cheap">>),
   FilamentOnly(Int2Num(12), << >>), FilamentOnly(Zero, << >>),
   FilamentOnly(Int2Num(-3), << >>), ExampleScenario(TRUE), ExampleScenario(FALSE)}

\* longest list of scenarios compared
MaxScenarios == 3

\* arguments of breakEvenAnalysis
FixedCosts == {Zero, Int2Num(500), Frac(7, 2), Int2Num(-5)}

UnitCosts == {Int2Num(2), Frac(5, 2)}

UnitPrices == {One, Int2Num(2), Int2Num(7), Frac(17, 4)}

\* the calls made on the engine
EngineCalls ==
  {[op |-> "compareScenarios", scenarios |-> q] : q \in SeqsUpTo(Scenarios, MaxScenarios)} \cup
  {[op |-> "breakEvenAnalysis", fixedCosts |-> f, costPerUnit |-> c, pricePerUnit |-> p] :
     f \in FixedCosts, c \in UnitCosts, p \in UnitPrices}

\* the requests of the calls of calculate and quickCalculate made on the engine
EngineRequests ==
  {ExampleRequest} \cup
  {[ExampleRequest EXCEPT !.printer.amsMethods = TRUE,
                          !.printer.currentHours = Int2Num(12),
                          !.consumables = <<q>>] : q \in SeqsUpTo(Consumables, 1)}

InitEngine ==
  /\ \/ params = ExampleRequest /\ call \in EngineCalls
     \/ params \in EngineRequests /\ call = NoCall
  /\ result = NoResult
  /\ consumable = NewConsumable(Int2Num(2), Zero, 2)
  /\ now = 0
  /\ record = << >>
  /\ shared = FALSE
  /\ printerInst = NoPrinter
  /\ store = EmptyStore
  /\ exported = << >>
  /\ job = NoJob

\* costCalculator.compareScenarios(scenarios), called for the first time or
\* once more
CompareScenarios ==
  /\ call.op = "compareScenarios"
  /\ result.kind \in {"none", "comparison"}
  /\ result' = compareScenarios(call.scenarios)
  /\ UNCHANGED <<params, consumableVars, job, call, printerInst, storageVars>>

\* costCalculator.breakEvenAnalysis({fixedCosts, costPerUnit, pricePerUnit}),
\* called for the first time or once more
BreakEvenAnalysis ==
  /\ call.op = "breakEvenAnalysis"
  /\ result.kind \in {"none", "breakEven"}
  /\ result' = breakEvenAnalysis(call.fixedCosts, call.costPerUnit, call.pricePerUnit)
  /\ UNCHANGED <<params, consumableVars, job, call, printerInst, storageVars>>

NextEngine == CompareScenarios \/ BreakEvenAnalysis \/ Calculate \/ QuickCalculate

SpecEngine == InitEngine /\ [][NextEngine]_vars

\* the totals of the scenarios of a returned comparison, in input order
ScenarioTotals == [i \in 1..Len(call.scenarios) |-> calculate(call.scenarios[i]).total]

\* the total at position i is the least, the greatest, of the totals
IsLeast(i) == \A k \in 1..Len(ScenarioTotals) : Le(ScenarioTotals[i], ScenarioTotals[k])

IsGreatest(i) == \A k \in 1..Len(ScenarioTotals) : Ge(ScenarioTotals[i], ScenarioTotals[k])

\* C17: compareScenarios returns one annotated result per scenario, in input
\* order, with isLowest true exactly for the entries whose total is the
\* minimum and isHighest true exactly for those whose total is the maximum;
\* ties are all flagged, a single scenario is both, every non-empty
\* comparison has a lowest and a highest entry, and totals [10, 7, 12] flag
\* only 7 as lowest and only 12 as highest.
C17_LowestHighest ==
  result.kind = "comparison" =>
    /\ Len(result.value) = Len(call.scenarios)
    /\ \A i \in 1..Len(result.value) :
         /\ result.value[i].index = i - 1
         /\ result.value[i].result = calculate(call.scenarios[i])
         /\ result.value[i].isLowest <=> IsLeast(i)
         /\ result.value[i].isHighest <=> IsGreatest(i)
    /\ Len(result.value) = 1 => (result.value[1].isLowest /\ result.value[1].isHighest)
    /\ Len(result.value) > 0 =>
         /\ \E i \in 1..Len(result.value) : result.value[i].isLowest
         /\ \E i \in 1..Len(result.value) : result.value[i].isHighest
    /\ ScenarioTotals = <<Int2Num(10), Int2Num(7), Int2Num(12)>> =>
         /\ [i \in 1..3 |-> result.value[i].isLowest] = <<FALSE, TRUE, FALSE>>
         /\ [i \in 1..3 |-> result.value[i].isHighest] = <<FALSE, FALSE, TRUE>>

\* the comparison of totals 10, 7 and 12
C17_Witness ==
  /\ result.kind = "comparison"
  /\ ScenarioTotals = <<Int2Num(10), Int2Num(7), Int2Num(12)>>

\* C18: in every entry of compareScenarios' output differenceFromLowest is
\* total - minTotal, hence >= 0 and 0 exactly for the lowest entries, and
\* percentFromLowest is differenceFromLowest / minTotal x 100 when
\* minTotal > 0 and 0 otherwise; no division by zero shows in the output.
C18_DifferenceFromLowest ==
  (result.kind = "comparison" /\ Len(result.value) > 0) =>
    LET least == CHOOSE i \in 1..Len(ScenarioTotals) : IsLeast(i)
        minTotal == ScenarioTotals[least]
    IN  \A i \in 1..Len(result.value) :
          LET entry == result.value[i]
          IN  /\ entry.differenceFromLowest = Sub(entry.result.total, minTotal)
              /\ Ge(entry.differenceFromLowest, Zero)
              /\ entry.differenceFromLowest = Zero <=> entry.isLowest
              /\ entry.percentFromLowest =
                   (IF Gt(minTotal, Zero)
                    THEN Mul(Div(entry.differenceFromLowest, minTotal), Hundred)
                    ELSE Zero)
              /\ IsFinite(entry.percentFromLowest)

\* a comparison whose lowest total is 0, with an entry above it
C18_Witness ==
  /\ result.kind = "comparison"
  /\ \E i, k \in 1..Len(result.value) :
       /\ result.value[i].result.total = Zero
       /\ result.value[i].isLowest
       /\ Gt(result.value[k].differenceFromLowest, Zero)
       /\ result.value[k].percentFromLowest = Zero

\* C19: breakEvenAnalysis computes marginPerUnit = pricePerUnit - costPerUnit;
\* for a margin <= 0 it returns profitable = false and breakEvenQuantity =
\* Infinity; otherwise profitable = true and breakEvenQuantity is the least
\* integer q with q x marginPerUnit >= fixedCosts; (500, 2, 1) is
\* unprofitable and (500, 2, 7) gives margin 5 and quantity 100.
C19_BreakEven ==
  result.kind = "breakEven" =>
    /\ result.marginPerUnit = Sub(call.pricePerUnit, call.costPerUnit)
    /\ Le(result.marginPerUnit, Zero) =>
         (~result.profitable /\ result.breakEvenQuantity = Infinity)
    /\ Gt(result.marginPerUnit, Zero) =>
         /\ result.profitable
         /\ result.breakEvenQuantity.d = 1
         /\ Ge(Mul(result.breakEvenQuantity, result.marginPerUnit), call.fixedCosts)
         /\ Lt(Mul(Sub(result.breakEvenQuantity, One), result.marginPerUnit), call.fixedCosts)
    /\ (call.fixedCosts = Int2Num(500) /\ call.costPerUnit = Int2Num(2)) =>
         /\ call.pricePerUnit = One => ~result.profitable
         /\ call.pricePerUnit = Int2Num(7) =>
              (result.marginPerUnit = Int2Num(5) /\ result.breakEvenQuantity = Int2Num(100))

\* a profitable analysis whose quotient fixedCosts / marginPerUnit is no integer
C19_Witness ==
  /\ result.kind = "breakEven"
  /\ result.profitable
  /\ Div(call.fixedCosts, result.marginPerUnit).d > 1
  /\ Gt(result.breakEvenQuantity, One)

\* the request has no labor, no markup and no auxiliary module, and calculate
\* returns for it
QuickComparable ==
  /\ params.printer.amsMethods
  /\ ~AmsAttached(params.printer)
  /\ Mul(Default(params.laborHourlyRate, Zero), Default(params.laborHours, Zero)) = Zero
  /\ Default(params.markupPercent, Zero) = Zero

\* C20: for the same price per gram, printer watts, cost and lifetime,
\* per-hour consumables cost, electricity rate, usage and failureRate (no
\* labor, no markup, no auxiliary module) quickCalculate returns the total
\* that calculate returns, for every failureRate calculate accepts,
\* failureRate = 1 included.
C20_QuickEqualsCalculate ==
  (result.kind = "quickTotal" /\ QuickComparable) =>
    result.value = calculate(params).total

List(items) == [isList |-> TRUE, items |-> items]

\* a truthy JSON value that is no list, such as the number 5
NotAList == [isList |-> FALSE, items |-> << >>]

\* this.get(key) || [] for a collection
GetOrEmpty(st, key) == IF st[key] = << >> THEN List(<< >>) ELSE st[key][1]

\* the first index of the instance with this id, 0 when there is none
\* (findIndex, counted from 1)
FindIndex(instances, id) ==
  IF \E i \in 1..Len(instances) : instances[i].id = id
  THEN CHOOSE i \in 1..Len(instances) :
         instances[i].id = id /\ \A k \in 1..(i - 1) : instances[k].id # id
  ELSE 0

\* the list after savePrinter, saveFilament or saveConsumable: the instance
\* replaces the entry with its id or is pushed at the end
Saved(instances, inst) ==
  IF FindIndex(instances, inst.id) > 0
  THEN [instances EXCEPT ![FindIndex(instances, inst.id)] = inst]
  ELSE Append(instances, inst)

\* the list after savePrintJob: a new job is put at the front
SavedFirst(instances, inst) ==
  IF FindIndex(instances, inst.id) > 0
  THEN [instances EXCEPT ![FindIndex(instances, inst.id)] = inst]
  ELSE <<inst>> \o instances

\* filter(x => x.id !== id)
RECURSIVE Without(_, _)
Without(instances, id) ==
  IF instances = << >> THEN << >>
  ELSE LET rest == Without(SubSeq(instances, 1, Len(instances) - 1), id)
           last == instances[Len(instances)]
       IN  IF last.id # id THEN Append(rest, last) ELSE rest

\* getPrinters, getFilaments, getConsumables, getPrintHistory on a stored list
ReadPrinters(items, t) == [i \in 1..Len(items) |-> Printer_fromJSON(items[i], "u1", t)]

ReadFilaments(items, t) == [i \in 1..Len(items) |-> Filament_fromJSON(items[i], "u1", t)]

ReadConsumables(items) == [i \in 1..Len(items) |-> Consumable_fromJSON(items[i])]

ReadPrintHistory(items, t) == [i \in 1..Len(items) |-> PrintJob_fromJSON(items[i], "u1", t)]

\* savePrinters, saveFilaments, saveConsumables, savePrintHistory: the list written
WritePrinters(instances) == List([i \in 1..Len(instances) |-> Printer_toJSON(instances[i])])

WriteFilaments(instances) == List([i \in 1..Len(instances) |-> Filament_toJSON(instances[i])])

WriteConsumables(instances) == List([i \in 1..Len(instances) |-> Consumable_toJSON(instances[i])])

WritePrintHistory(instances) == List([i \in 1..Len(instances) |-> AsData(PrintJob_toJSON(instances[i]))])

\* filter(c => c.printerId === printerId)
RECURSIVE ForPrinter(_, _)
ForPrinter(instances, printerId) ==
  IF instances = << >> THEN << >>
  ELSE LET rest == ForPrinter(SubSeq(instances, 1, Len(instances) - 1), printerId)
           last == instances[Len(instances)]
       IN  IF last.printerId = <<printerId>> THEN Append(rest, last) ELSE rest

\* the record of a printer as the printer form gives it
PrinterRecord(id, name) ==
  [id |-> <<id>>, name |-> <<name>>, powerConsumption |-> << >>,
   purchasePrice |-> <<Int2Num(300)>>, estimatedLifetimeHours |-> << >>,
   currentHours |-> <<Zero>>, defaultFailureRate |-> << >>, consumableIds |-> << >>,
   createdAt |-> <<0>>, updatedAt |-> <<0>>, hasAms |-> << >>, ams |-> << >>]

\* the record of a filament
FilamentRecord(id, name) ==
  [id |-> <<id>>, name |-> <<name>>, material |-> << >>, spoolWeight |-> << >>,
   spoolPrice |-> << >>, inStock |-> << >>, createdAt |-> <<0>>]

\* the record of a print job
JobRecord(id) ==
  [id |-> <<id>>, name |-> <<"Benchy">>, printerId |-> <<"p1">>,
   printTimeMinutes |-> <<Int2Num(90)>>, filamentUsedGrams |-> <<Int2Num(25)>>,
   layerHeight |-> << >>, costs |-> << >>, status |-> << >>, actualOutcome |-> << >>,
   tags |-> << >>, createdAt |-> <<0>>, completedAt |-> << >>]

\* the entities the pages of the application save
SavedPrinters ==
  {Printer_new(PrinterRecord("p1", "X1"), "u1", 0),
   Printer_new(PrinterRecord("p1", "X1 Carbon"), "u1", 0),
   Printer_new(PrinterRecord("p2", "Mini"), "u1", 0)}

SavedFilaments == {Filament_new(FilamentRecord("f1", "Black PLA"), "u1", 0)}

\* one consumable shared by all printers, one of printer p1, one of printer p2
SavedConsumables ==
  {[NewConsumable(Int2Num(500), Zero, 1) EXCEPT !.id = "c1"],
   [NewConsumable(Int2Num(500), Zero, 1) EXCEPT !.id = "c2", !.printerId = <<"p1">>],
   [NewConsumable(Int2Num(500), Zero, 1) EXCEPT !.id = "c3", !.printerId = <<"p2">>]}

SavedPrintJobs == {PrintJob_new(JobRecord("j1"), "u1", 0), PrintJob_new(JobRecord("j2"), "u1", 0)}

\* the ids of the stored entities of each collection
PrinterIds == {"p1", "p2"}

FilamentIds == {"f1"}

ConsumableIds == {"c1", "c2", "c3"}

PrintJobIds == {"j1", "j2"}

\* at most this many entries are pushed onto a stored list
MaxStored == 2

\* the value a save returns
Saved_True == [kind |-> "saved", value |-> TRUE]

\* storage.savePrinter(printer)
SavePrinter ==
  /\ \E printer \in SavedPrinters :
       LET data == GetOrEmpty(store, "printers")
       IN  IF ~data.isList
           THEN /\ result' = [kind |-> "TypeError"]
                /\ store' = store
           ELSE /\ FindIndex(ReadPrinters(data.items, now), printer.id) > 0 \/ Len(data.items) < MaxStored
                /\ store' = [store EXCEPT !.printers =
                               <<WritePrinters(Saved(ReadPrinters(data.items, now), printer))>>]
                /\ result' = Saved_True
  /\ UNCHANGED <<params, consumableVars, job, call, printerInst, exported>>

\* storage.deletePrinter(id)
DeletePrinter ==
  /\ \E id \in PrinterIds :
       LET data == GetOrEmpty(store, "printers")
       IN  IF ~data.isList
           THEN /\ result' = [kind |-> "TypeError"]
                /\ store' = store
           ELSE /\ store' = [store EXCEPT !.printers =
                               <<WritePrinters(Without(ReadPrinters(data.items, now), id))>>]
                /\ result' = Saved_True
  /\ UNCHANGED <<params, consumableVars, job, call, printerInst, exported>>

\* storage.saveFilament(filament)
SaveFilament ==
  /\ \E filament \in SavedFilaments :
       LET data == GetOrEmpty(store, "filaments")
       IN  IF ~data.isList
           THEN /\ result' = [kind |-> "TypeError"]
                /\ store' = store
           ELSE /\ FindIndex(ReadFilaments(data.items, now), filament.id) > 0 \/ Len(data.items) < MaxStored
                /\ store' = [store EXCEPT !.filaments =
                               <<WriteFilaments(Saved(ReadFilaments(data.items, now), filament))>>]
                /\ result' = Saved_True
  /\ UNCHANGED <<params, consumableVars, job, call, printerInst, exported>>

\* storage.deleteFilament(id)
DeleteFilament ==
  /\ \E id \in FilamentIds :
       LET data == GetOrEmpty(store, "filaments")
       IN  IF ~data.isList
           THEN /\ result' = [kind |-> "TypeError"]
                /\ store' = store
           ELSE /\ store' = [store EXCEPT !.filaments =
                               <<WriteFilaments(Without(ReadFilaments(data.items, now), id))>>]
                /\ result' = Saved_True
  /\ UNCHANGED <<params, consumableVars, job, call, printerInst, exported>>

\* storage.saveConsumable(consumable)
SaveConsumable ==
  /\ \E c \in SavedConsumables :
       LET data == GetOrEmpty(store, "consumables")
       IN  IF ~data.isList
           THEN /\ result' = [kind |-> "TypeError"]
                /\ store' = store
           ELSE /\ FindIndex(ReadConsumables(data.items), c.id) > 0 \/ Len(data.items) < MaxStored
                /\ store' = [store EXCEPT !.consumables =
                               <<WriteConsumables(Saved(ReadConsumables(data.items), c))>>]
                /\ result' = Saved_True
  /\ UNCHANGED <<params, consumableVars, job, call, printerInst, exported>>

\* storage.deleteConsumable(id)
DeleteConsumable ==
  /\ \E id \in ConsumableIds :
       LET data == GetOrEmpty(store, "consumables")
       IN  IF ~data.isList
           THEN /\ result' = [kind |-> "TypeError"]
                /\ store' = store
           ELSE /\ store' = [store EXCEPT !.consumables =
                               <<WriteConsumables(Without(ReadConsumables(data.items), id))>>]
                /\ result' = Saved_True
  /\ UNCHANGED <<params, consumableVars, job, call, printerInst, exported>>

\* storage.savePrintJob(printJob)
SavePrintJob ==
  /\ \E printJob \in SavedPrintJobs :
       LET data == GetOrEmpty(store, "printHistory")
       IN  IF ~data.isList
           THEN /\ result' = [kind |-> "TypeError"]
                /\ store' = store
           ELSE /\ FindIndex(ReadPrintHistory(data.items, now), printJob.id) > 0 \/ Len(data.items) < MaxStored
                /\ store' = [store EXCEPT !.printHistory =
                               <<WritePrintHistory(SavedFirst(ReadPrintHistory(data.items, now), printJob))>>]
                /\ result' = Saved_True
  /\ UNCHANGED <<params, consumableVars, job, call, printerInst, exported>>

\* storage.deletePrintJob(id)
DeletePrintJob ==
  /\ \E id \in PrintJobIds :
       LET data == GetOrEmpty(store, "printHistory")
       IN  IF ~data.isList
           THEN /\ result' = [kind |-> "TypeError"]
                /\ store' = store
           ELSE /\ store' = [store EXCEPT !.printHistory =
                               <<WritePrintHistory(Without(ReadPrintHistory(data.items, now), id))>>]
                /\ result' = Saved_True
  /\ UNCHANGED <<params, consumableVars, job, call, printerInst, exported>>

\* storage.getConsumablesForPrinter(printerId), whose value App.calculateCost
\* passes to calculate as the consumables of the print
GetConsumablesForPrinter ==
  /\ \E printerId \in PrinterIds :
       LET data == GetOrEmpty(store, "consumables")
       IN  result' = IF ~data.isList THEN [kind |-> "TypeError"]
                     ELSE [kind      |-> "consumablesForPrinter",
                           printerId |-> printerId,
                           value     |-> ForPrinter(ReadConsumables(data.items), printerId)]
  /\ UNCHANGED <<params, consumableVars, job, call, printerInst, storageVars>>

\* CONFIG.APP_VERSION
APP_VERSION == "1.0.0"

\* the settings object: each property is << >> (not there) or <<v>>
EmptySettings == [electricityRate |-> << >>, currency |-> << >>, theme |-> << >>]

\* the settings getSettings falls back to
DefaultSettings ==
  [electricityRate |-> <<Frac(3, 20)>>, currency |-> <<"USD">>, theme |-> <<"light">>]

\* settings a user has saved
UserSettings ==
  [electricityRate |-> <<Frac(1, 4)>>, currency |-> <<"EUR">>, theme |-> <<"dark">>]

\* StorageManager.getSettings: this.get(settings) || defaults; a stored
\* object, the empty one included, is truthy
getSettings(st) == IF st.settings = << >> THEN DefaultSettings ELSE st.settings[1]

\* map.set(item.id, item): the item takes the place of the entry with its id
\* or goes to the end
MapSet(entries, item) ==
  IF \E i \in 1..Len(entries) : entries[i].id = item.id
  THEN [entries EXCEPT ![CHOOSE i \in 1..Len(entries) : entries[i].id = item.id] = item]
  ELSE Append(entries, item)

\* items.forEach(item => map.set(item.id, item)) on the entries of a map
RECURSIVE MapSetAll(_, _)
MapSetAll(entries, items) ==
  IF items = << >> THEN entries
  ELSE MapSetAll(MapSet(entries, Head(items)), Tail(items))

\* StorageManager._mergeArraysById on two lists
mergeArraysById(existing, imported) == MapSetAll(MapSetAll(<< >>, existing), imported)

\* the collections importAll goes through, in its order
Collections == <<"printers", "filaments", "consumables", "printHistory">>

\* the merge branch of importAll from collection number k on: the store and
\* whether an exception was thrown.  A section or a stored value that is no
\* list has no forEach, and the exception leaves the earlier writes in place.
RECURSIVE ImportMerge(_, _, _)
ImportMerge(st, data, k) ==
  IF k > Len(Collections) THEN [store |-> st, thrown |-> FALSE]
  ELSE LET key == Collections[k]
       IN  IF data[key] = << >> THEN ImportMerge(st, data, k + 1)
           ELSE IF ~GetOrEmpty(st, key).isList \/ ~data[key][1].isList
                THEN [store |-> st, thrown |-> TRUE]
                ELSE ImportMerge([st EXCEPT ![key] =
                                    <<List(mergeArraysById(GetOrEmpty(st, key).items,
                                                           data[key][1].items))>>],
                                 data, k + 1)

\* the replace branch of importAll: every section that is there is written
ImportReplace(st, data) ==
  [key \in DOMAIN st |-> IF data[key] = << >> THEN st[key] ELSE data[key]]

\* StorageManager.importAll(jsonString, {merge}): the store afterwards and
\* the success flag.  file.parsed tells whether JSON.parse accepts the string
importAll(st, file, merge) ==
  IF ~file.parsed THEN [store |-> st, success |-> FALSE]
  ELSE IF file.data.version = << >> \/ file.data.version = <<"">>
  THEN [store |-> st, success |-> FALSE]
  ELSE IF merge
  THEN LET merged == ImportMerge(st, file.data, 1)
       IN  [store |-> merged.store, success |-> ~merged.thrown]
  ELSE [store |-> ImportReplace(st, file.data), success |-> TRUE]

\* StorageManager.exportAll: the file written, as JSON.parse reads it back;
\* every value in it came out of JSON.parse before and is kept by
\* JSON.stringify as it is
exportAll(st, t) ==
  [parsed |-> TRUE,
   data |-> [version      |-> <<APP_VERSION>>,
             exportDate   |-> <<t>>,
             printers     |-> <<GetOrEmpty(st, "printers")>>,
             filaments    |-> <<GetOrEmpty(st, "filaments")>>,
             consumables  |-> <<GetOrEmpty(st, "consumables")>>,
             printHistory |-> <<GetOrEmpty(st, "printHistory")>>,
             settings     |-> <<IF st.settings = << >> THEN EmptySettings
                                ELSE st.settings[1]>>]]

\* what the getters of the storage return
Readable(st, t) ==
  [printers     |-> ReadPrinters(GetOrEmpty(st, "printers").items, t),
   filaments    |-> ReadFilaments(GetOrEmpty(st, "filaments").items, t),
   consumables  |-> ReadConsumables(GetOrEmpty(st, "consumables").items),
   printHistory |-> ReadPrintHistory(GetOrEmpty(st, "printHistory").items, t),
   settings     |-> getSettings(st)]

\* a file with the given sections
ImportFile(version, printers, filaments, settings) ==
  [parsed |-> TRUE,
   data |-> [version |-> version, exportDate |-> <<0>>, printers |-> printers,
             filaments |-> filaments, consumables |-> << >>, printHistory |-> << >>,
             settings |-> settings]]

\* a stored printer record
StoredPrinter(id, name) == Printer_toJSON(Printer_new(PrinterRecord(id, name), "u1", 0))

\* the files a user may pick: one that is no JSON, one without version, a
\* well-formed one, one whose filaments section is a number, and one that
\* lists the same printer twice
ImportFiles ==
  {[parsed |-> FALSE, data |-> << >>],
   ImportFile(<< >>, <<List(<<StoredPrinter("p2", "Shop")>>)>>, << >>, << >>),
   ImportFile(<<"1.0.0">>, <<List(<<StoredPrinter("p2", "Shop")>>)>>, << >>, <<UserSettings>>),
   ImportFile(<<"1.0.0">>, <<List(<<StoredPrinter("p2", "Shop")>>)>>, <<NotAList>>, << >>),
   ImportFile(<<"1.0.0">>, <<List(<<StoredPrinter("p1", "X1"), StoredPrinter("p1", "Twin")>>)>>,
              << >>, << >>)}

\* storage.importAll(content, {merge}) for a picked file
ImportAll ==
  /\ \E file \in ImportFiles, merge \in BOOLEAN :
       LET imported == importAll(store, file, merge)
       IN  /\ store' = imported.store
           /\ result' = [kind |-> "import", success |-> imported.success,
                         merge |-> merge, from |-> "file"]
  /\ UNCHANGED <<params, consumableVars, job, call, printerInst, exported>>

InitStorage ==
  /\ params = ExampleRequest
  /\ result = NoResult
  /\ consumable = NewConsumable(Int2Num(2), Zero, 2)
  /\ now = 0
  /\ record = << >>
  /\ shared = FALSE
  /\ printerInst = NoPrinter
  /\ job = NoJob
  /\ call = NoCall
  /\ store = EmptyStore
  /\ exported = << >>

NextStorage ==
  \/ SavePrinter \/ DeletePrinter \/ SaveFilament \/ DeleteFilament
  \/ SaveConsumable \/ DeleteConsumable \/ SavePrintJob \/ DeletePrintJob
  \/ GetConsumablesForPrinter \/ ImportAll

SpecStorage == InitStorage /\ [][NextStorage]_vars

\* the consumables read from the storage
StoredConsumables == ReadConsumables(GetOrEmpty(store, "consumables").items)

\* C22: the consumables fed into a cost calculation for printer P are every
\* stored consumable whose printerId is P together with every stored
\* consumable without printerId, and none of another printer.
C22_SharedConsumables ==
  result.kind = "consumablesForPrinter" =>
    {result.value[i] : i \in 1..Len(result.value)} =
      {StoredConsumables[i] : i \in
         {k \in 1..Len(StoredConsumables) :
            \/ StoredConsumables[k].printerId = <<result.printerId>>
            \/ StoredConsumables[k].printerId = << >>}}

(***************************************************************************)
(* Filament length and weight (class Filament)                              *)
(***************************************************************************)
\* Math.PI, taken as the rational 22/7: the conversions use it only as a
\* factor and as a divisor
PI == Frac(22, 7)

\* lengthToWeight that gives whole grams
Filament_lengthToWeight_Rounded(f, lengthMm) ==
  LET radiusCm  == Div(Div(f.diameter, Int2Num(2)), Int2Num(10))
      lengthCm  == Div(lengthMm, Int2Num(10))
      volumeCm3 == Mul(Mul(PI, Mul(radiusCm, radiusCm)), lengthCm)
  IN  Ceil(Mul(volumeCm3, f.density))

\* Filament.lengthToWeight
Filament_lengthToWeight(f, lengthMm) ==
  LET radiusCm  == Div(Div(f.diameter, Int2Num(2)), Int2Num(10))
      lengthCm  == Div(lengthMm, Int2Num(10))
      volumeCm3 == Mul(Mul(PI, Mul(radiusCm, radiusCm)), lengthCm)
  IN  Mul(volumeCm3, f.density)

\* Filament.weightToLength
Filament_weightToLength(f, grams) ==
  LET radiusCm  == Div(Div(f.diameter, Int2Num(2)), Int2Num(10))
      volumeCm3 == Div(grams, f.density)
      lengthCm  == Div(volumeCm3, Mul(PI, Mul(radiusCm, radiusCm)))
  IN  Mul(lengthCm, Int2Num(10))

\* the filaments converted: diameters 0, 1.75 and 3 mm, densities 0, 1.04
\* and 1.24 g/cm3
ConvertedFilaments ==
  {[diameter |-> dm, density |-> dn] :
     dm \in {Zero, Frac(7, 4), Int2Num(3)}, dn \in {Zero, Frac(26, 25), Frac(31, 25)}}

\* the grams or millimetres converted
Amounts == {Zero, Frac(1, 2), Int2Num(25), Int2Num(1000)}

\* a conversion and the amount it starts from
ConversionCalls ==
  {[op |-> o, filament |-> f, amount |-> x] :
     o \in {"weightToLength", "lengthToWeight"}, f \in ConvertedFilaments, x \in Amounts}

InitFilament ==
  /\ params = ExampleRequest
  /\ result = NoResult
  /\ consumable = NewConsumable(Int2Num(2), Zero, 2)
  /\ now = 0
  /\ record = << >>
  /\ shared = FALSE
  /\ printerInst = NoPrinter
  /\ store = EmptyStore
  /\ exported = << >>
  /\ job = NoJob
  /\ call \in ConversionCalls

\* filament.weightToLength(grams), for the amount of the call or for the
\* weight the other conversion has just given
WeightToLength ==
  /\ \/ /\ call.op = "weightToLength" /\ result = NoResult
        /\ result' = [kind |-> "length", conversions |-> 1,
                      value |-> Filament_weightToLength(call.filament, call.amount)]
     \/ /\ call.op = "lengthToWeight" /\ result.kind = "weight" /\ result.conversions = 1
        /\ result' = [kind |-> "length", conversions |-> 2,
                      value |-> Filament_weightToLength(call.filament, result.value)]
  /\ UNCHANGED <<params, consumableVars, job, call, printerInst, storageVars>>

\* filament.lengthToWeight(lengthMm), for the amount of the call or for the
\* length the other conversion has just given
LengthToWeight ==
  /\ \/ /\ call.op = "lengthToWeight" /\ result = NoResult
        /\ result' = [kind |-> "weight", conversions |-> 1,
                      value |-> Filament_lengthToWeight(call.filament, call.amount)]
     \/ /\ call.op = "weightToLength" /\ result.kind = "length" /\ result.conversions = 1
        /\ result' = [kind |-> "weight", conversions |-> 2,
                      value |-> Filament_lengthToWeight(call.filament, result.value)]
  /\ UNCHANGED <<params, consumableVars, job, call, printerInst, storageVars>>

NextFilament == WeightToLength \/ LengthToWeight

SpecFilament == InitFilament /\ [][NextFilament]_vars

(***************************************************************************)
(* A Printer instance over time: print time added, consumables linked and  *)
(* unlinked, costs read and the record emitted.  The instance is built     *)
(* from a plain record, which stays in `record`; `shared` tells whether    *)
(* the instance took the record's consumableIds array as its own.          *)
(***************************************************************************)
\* addPrintTime with `=` in place of `+=`
addPrintTime_Assigns(p, minutes, t) ==
  [p EXCEPT !.currentHours = Div(minutes, Sixty), !.updatedAt = t]

\* Printer.addPrintTime
addPrintTime(p, minutes, t) ==
  [p EXCEPT !.currentHours = Add(@, Div(minutes, Sixty)), !.updatedAt = t]

\* Printer.linkConsumable
linkConsumable(p, consumableId, t) ==
  IF ~Includes(p.consumableIds, consumableId)
  THEN [p EXCEPT !.consumableIds = Append(@, consumableId), !.updatedAt = t]
  ELSE p

\* Printer.unlinkConsumable
unlinkConsumable(p, consumableId, t) ==
  IF Includes(p.consumableIds, consumableId)
  THEN [p EXCEPT !.consumableIds = SubSeq(@, 1, IndexOf(@, consumableId) - 1) \o
                                   SubSeq(@, IndexOf(@, consumableId) + 1, Len(@)),
                 !.updatedAt = t]
  ELSE p

\* the hours a modelled printer may reach
MaxPrinterHours == 2

\* the minutes passed to addPrintTime and to the cost getters
PrintMinutes == {Int2Num(-30), Zero, Int2Num(30), Int2Num(90)}

\* the consumable ids linked and unlinked
LinkedIds == {"c1", "c2"}

\* the records Printer instances are built from
SourcePrinterRecords ==
  {r \in PrinterRecords : r.hasAms = << >> /\ r.ams = << >> /\ r.powerConsumption = << >>}

\* `data.consumableIds || []` takes the array of the record when it has one
TakesArray(data) == data.consumableIds # << >>

InitPrinter ==
  /\ params = ExampleRequest
  /\ result = NoResult
  /\ consumable = NewConsumable(Int2Num(2), Zero, 2)
  /\ now = 0
  /\ \E data \in SourcePrinterRecords :
       /\ record = <<data>>
       /\ shared = TakesArray(data)
       /\ printerInst = Printer_new(data, "u1", 0)
  /\ store = EmptyStore
  /\ exported = << >>
  /\ job = NoJob
  /\ call = NoCall

\* the record's consumableIds after the instance's array has changed to ids
RecordWithIds(ids) ==
  IF shared THEN <<[record[1] EXCEPT !.consumableIds = <<ids>>]>> ELSE record

\* printer.addPrintTime(minutes)
AddPrintTime ==
  /\ \E minutes \in PrintMinutes :
       /\ Le(Int2Num(-1), addPrintTime(printerInst, minutes, now).currentHours)
       /\ Le(addPrintTime(printerInst, minutes, now).currentHours, Int2Num(MaxPrinterHours))
       /\ printerInst' = addPrintTime(printerInst, minutes, now)
       /\ call' = [op |-> "addPrintTime", minutes |-> minutes]
  /\ result' = Undefined
  /\ UNCHANGED <<params, consumable, now, record, shared, job, storageVars>>

\* printer.linkConsumable(consumableId)
LinkConsumable ==
  /\ \E id \in LinkedIds :
       /\ printerInst' = linkConsumable(printerInst, id, now)
       /\ record' = RecordWithIds(linkConsumable(printerInst, id, now).consumableIds)
       /\ call' = [op |-> "linkConsumable", id |-> id]
  /\ result' = Undefined
  /\ UNCHANGED <<params, consumable, now, shared, job, storageVars>>

\* printer.unlinkConsumable(consumableId)
UnlinkConsumable ==
  /\ \E id \in LinkedIds :
       /\ printerInst' = unlinkConsumable(printerInst, id, now)
       /\ record' = RecordWithIds(unlinkConsumable(printerInst, id, now).consumableIds)
       /\ call' = [op |-> "unlinkConsumable", id |-> id]
  /\ result' = Undefined
  /\ UNCHANGED <<params, consumable, now, shared, job, storageVars>>

\* printer.getDepreciationCost(printTimeMinutes)
GetDepreciationCost ==
  /\ \E minutes \in PrintMinutes :
       /\ result' = [kind |-> "cost", value |-> Printer_getDepreciationCost(printerInst, minutes)]
       /\ call' = [op |-> "getDepreciationCost", minutes |-> minutes]
  /\ UNCHANGED <<params, consumableVars, job, printerInst, storageVars>>

\* printer.getElectricityCost(printTimeMinutes, electricityRate)
GetPrinterElectricityCost ==
  /\ \E minutes \in PrintMinutes :
       /\ result' = [kind |-> "cost",
                     value |-> Printer_getElectricityCost(printerInst, minutes, EngineElectricityRate)]
       /\ call' = [op |-> "getElectricityCost", minutes |-> minutes]
  /\ UNCHANGED <<params, consumableVars, job, printerInst, storageVars>>

\* printer.toJSON()
PrinterToJSON ==
  /\ result' = [kind |-> "record", value |-> Printer_toJSON(printerInst)]
  /\ call' = [op |-> "toJSON"]
  /\ UNCHANGED <<params, consumableVars, job, printerInst, storageVars>>

NextPrinter ==
  \/ AddPrintTime
  \/ LinkConsumable
  \/ UnlinkConsumable
  \/ GetDepreciationCost
  \/ GetPrinterElectricityCost
  \/ PrinterToJSON
  \/ Tick

SpecPrinter == InitPrinter /\ [][NextPrinter]_vars

\* C23: weightToLength and lengthToWeight are mutual inverses: for a filament
\* with density > 0 and diameter > 0 and an amount > 0, converting the
\* amount and converting the outcome back gives the amount, whichever
\* conversion comes first; neither rounds on its own.
C23_MutualInverses ==
  (/\ result.kind \in {"weight", "length"}
   /\ result.conversions = 2
   /\ Gt(call.filament.density, Zero)
   /\ Gt(call.filament.diameter, Zero)
   /\ Gt(call.amount, Zero)) => result.value = call.amount

\* half a gram of 1.75 mm filament converted to a length and back
C23_Witness ==
  /\ result.kind = "weight"
  /\ result.conversions = 2
  /\ call.filament = [diameter |-> Frac(7, 4), density |-> Frac(31, 25)]
  /\ call.amount = Frac(1, 2)

(***************************************************************************)
(* Export of the storage and import of the exported file                    *)
(***************************************************************************)
\* storage contents: each key not set or holding saved entities
StorageContents ==
  [printers     : {<< >>, <<List(<< >>)>>, <<List(<<StoredPrinter("p1", "X1")>>)>>,
                   <<List(<<StoredPrinter("p1", "X1"), StoredPrinter("p2", "Mini")>>)>>},
   filaments    : {<< >>, <<WriteFilaments(<<Filament_new(FilamentRecord("f1", "Black PLA"), "u1", 0)>>)>>},
   consumables  : {<< >>, <<WriteConsumables(<<NewConsumable(Int2Num(500), One, 1)>>)>>},
   printHistory : {<< >>, <<WritePrintHistory(<<PrintJob_new(JobRecord("j1"), "u1", 0)>>)>>},
   settings     : {<< >>, <<EmptySettings>>, <<UserSettings>>}]

InitExportImport ==
  /\ params = ExampleRequest
  /\ result = NoResult
  /\ consumable = NewConsumable(Int2Num(2), Zero, 2)
  /\ now = 0
  /\ record = << >>
  /\ shared = FALSE
  /\ printerInst = NoPrinter
  /\ job = NoJob
  /\ call = NoCall
  /\ store \in StorageContents
  /\ exported = << >>

\* storage.exportAll(); with the file, what the getters return at this time
\* is kept
ExportAll ==
  /\ exported = << >>
  /\ exported' = <<[file |-> exportAll(store, now), read |-> Readable(store, now)]>>
  /\ result' = [kind |-> "export"]
  /\ UNCHANGED <<params, consumableVars, job, call, printerInst, store>>

\* storage.clearAll()
ClearAll ==
  /\ store' = EmptyStore
  /\ result' = Undefined
  /\ UNCHANGED <<params, consumableVars, job, call, printerInst, exported>>

\* storage.importAll(content) for the exported file, in replace mode
ImportExported ==
  /\ exported # << >>
  /\ LET imported == importAll(store, exported[1].file, FALSE)
     IN  /\ store' = imported.store
         /\ result' = [kind |-> "import", success |-> imported.success,
                       merge |-> FALSE, from |-> "export"]
  /\ UNCHANGED <<params, consumableVars, job, call, printerInst, exported>>

NextExportImport == ExportAll \/ ClearAll \/ SavePrinter \/ DeletePrinter \/ ImportExported

SpecExportImport == InitExportImport /\ [][NextExportImport]_vars

\* C24: importing, in replace mode, the string exportAll produced, into
\* cleared or different storage, returns success and leaves printers,
\* filaments, consumables, print history and settings readable with the
\* contents they had at export time.
C24_ExportImportRestores ==
  (result.kind = "import" /\ result.from = "export") =>
    /\ result.success
    /\ Readable(store, now) = exported[1].read


\* C25: currentHours grows by exactly minutes / 60 in every addPrintTime
\* call, so it never decreases in a call with minutes >= 0, and no other
\* operation of the printer (linkConsumable, unlinkConsumable, the cost
\* getters, toJSON) changes it.
C25_CurrentHours ==
  [][/\ AddPrintTime =>
          /\ printerInst'.currentHours =
               Add(printerInst.currentHours, Div(call'.minutes, Sixty))
          /\ Ge(call'.minutes, Zero) => Ge(printerInst'.currentHours, printerInst.currentHours)
     /\ ~AddPrintTime => printerInst'.currentHours = printerInst.currentHours]_vars

\* a printer that has run for an hour and a half, with a consumable linked
\* and its record emitted
C25_Witness ==
  /\ printerInst.currentHours = Frac(3, 2)
  /\ printerInst.consumableIds # << >>
  /\ result.kind = "record"
  /\ result.value.currentHours = <<Frac(3, 2)>>


\* the sum of costPerHour(c) x hours over the first n of the consumables
RECURSIVE CostOfFirst(_, _, _)
CostOfFirst(consumables, hours, n) ==
  IF n = 0 THEN Zero
  ELSE Add(CostOfFirst(consumables, hours, n - 1),
           Mul(Consumable_getCostPerHour(consumables[n]), hours))

\* the sum of the costs of the first n items
RECURSIVE ItemCostOfFirst(_, _)
ItemCostOfFirst(items, n) ==
  IF n = 0 THEN Zero ELSE Add(ItemCostOfFirst(items, n - 1), items[n].cost)

\* C26: in a calculation that returns, the consumables cost is the sum over
\* the supplied consumables of costPerHour x printTimeMinutes / 60; the item
\* list has one entry per supplied consumable, in input order, with that
\* consumable's id, costPerHour and cost; the item costs add up to the
\* consumables cost; with no consumables the cost is 0 and the list empty.
C26_ConsumablesCost ==
  Returned =>
    LET items == result.breakdown.consumables.items
        totalCost == result.breakdown.consumables.totalCost
    IN  /\ totalCost = CostOfFirst(ReqConsumables, ReqHours, Len(ReqConsumables))
        /\ Len(items) = Len(ReqConsumables)
        /\ \A i \in 1..Len(ReqConsumables) :
             /\ items[i].id = ReqConsumables[i].id
             /\ items[i].costPerHour = Consumable_getCostPerHour(ReqConsumables[i])
             /\ items[i].cost = Mul(Consumable_getCostPerHour(ReqConsumables[i]), ReqHours)
        /\ ItemCostOfFirst(items, Len(items)) = totalCost
        /\ ReqConsumables = << >> => totalCost = Zero /\ items = << >>

\* a 90 minute print with two consumables, the first of them with a cost
C26_Witness ==
  /\ Returned
  /\ Len(ReqConsumables) = 2
  /\ ReqConsumables[1].id = "c1" /\ ReqConsumables[2].id = "c2"
  /\ params.printTimeMinutes = Int2Num(90)
  /\ result.breakdown.consumables.totalCost = Frac(3, 125)


\* C27: an instance does not share its arrays with the record it was built
\* from nor with a record toJSON returned: markReplaced on a consumable
\* leaves the record at hand, its source or its emitted copy, as it was.
C27_NoAliasing == [][MarkReplaced => record' = record]_vars


\* completedAt is set exactly in the statuses completed and failed, and
\* actualOutcome only in the status failed
CompletionFieldsAgree(j) ==
  /\ j.completedAt # << >> <=> j.status \in {"completed", "failed"}
  /\ j.actualOutcome # << >> => j.status = "failed"

\* C28: after any sequence of markCompleted and markFailed on a job, and on
\* every clone made of it, completedAt is non-null exactly when the status is
\* completed or failed, and actualOutcome is non-null only when the status
\* is failed.
C28_CompletionFields ==
  /\ CompletionFieldsAgree(job)
  /\ result.kind = "job" => CompletionFieldsAgree(result.value)


\* C29: an import that returns success = false leaves every storage key
\* holding what it held before the call, in replace and in merge mode.
C29_ImportAllOrNothing ==
  [][(ImportAll /\ ~result'.success) => store' = store]_vars


\* no two entries of the list have the same id
UniqueIds(items) ==
  \A i, k \in 1..Len(items) : items[i].id = items[k].id => i = k

\* C30: each of the stored printers, filaments, consumables and print
\* history holds at most one entry per id, after any sequence of saves,
\* deletes and imports from empty storage.
C30_UniqueIds ==
  \A key \in {"printers", "filaments", "consumables", "printHistory"} :
    UniqueIds(GetOrEmpty(store, key).items)

====
